---- MODULE Spec2Model ----
(***************************************************************************)
(* A model of the MISRA addon (addons/misra.py): the suppression registry, *)
(* the reporting path (reportError / executeCheck / verify mode), and the  *)
(* rule algorithms 16.3 (raw-token scanner), 10.6 and 12.1 (AST rules).     *)
(*                                                                         *)
(* Python values are represented as follows.                               *)
(*   None            the empty tuple <<>>                                  *)
(*   a str           a tuple of one-character strings ("d/a" is            *)
(*                   <<"d","/","a">>)                                      *)
(*   an optional x   None, or the one-element tuple <<x>>                  *)
(*   a dict          a function whose DOMAIN is the set of keys            *)
(*   a list          a sequence                                            *)
(***************************************************************************)
EXTENDS Integers, Sequences, FiniteSets, TLC

VARIABLES
    suppressedRules,   \* MisraChecker.suppressedRules
    filePrefix,        \* MisraChecker.filePrefix
    added,             \* history: the arguments of the addSuppressedRule calls so far
    verify,            \* MisraSettings.verify
    ruleTexts,         \* MisraChecker.ruleTexts
    suppressionStats,  \* MisraChecker.suppressionStats
    verify_expected,   \* MisraChecker.verify_expected
    verify_actual,     \* MisraChecker.verify_actual
    violations,        \* MisraChecker.violations
    typeBits,          \* the module-level dict typeBits
    reported,          \* the calls of cppcheckdata.reportError (the reporting sink)
    printed,           \* the mismatch lines main writes in verify mode
    exitCode,          \* main: exitCode
    dumpfiles,         \* main: the dump files of args.dumpfile not yet parsed
    data,              \* parseDump: data, the dump being checked (None between dumps)
    cfgNumber,         \* parseDump: cfgNumber
    checkIdx,          \* parseDump: which executeCheck call of the configuration is next
    pc,                \* where main is
    found,             \* history: what the check functions find, run or not
    seenTokens,        \* history: the raw tokens of the dumps parsed so far
    rawTokens,         \* misra_16_3: rawTokens, the texts of the raw token stream
    token,             \* misra_16_3: the index of the loop's token in rawTokens
    state,             \* misra_16_3: state
    end_swtich_token,  \* misra_16_3: end_swtich_token (an index, or None)
    tokenlist,         \* data.tokenlist of the rules that walk the syntax tree
    executed,          \* history: how often each check function was called
    runs,              \* history: the parseDump calls, with where their output starts
    essential,         \* history: the essential type and category found for each token
    returned,          \* history: what the function under test returned, call by call
    ifStack,           \* misra_20_14: ifStack
    frames,            \* misra_17_2: the calls of find_recursive_call in progress
    visited,           \* find_recursive_call: visited
    errors             \* the reportError calls of the rule function under test

regVars == <<suppressedRules, filePrefix, added>>

runVars == <<verify, ruleTexts, suppressionStats, verify_expected, verify_actual,
             violations, typeBits, reported, printed, exitCode, dumpfiles, data,
             cfgNumber, checkIdx, pc, found, seenTokens>>

ruleVars == <<rawTokens, token, state, end_swtich_token, tokenlist, executed, runs,
             essential, returned, ifStack, frames, visited, errors>>

vars == <<regVars, runVars, ruleVars>>

None == <<>>

Some(x) == <<x>>

\* ------------------------------------------------------------------------
\* str helpers (Python str methods and os.path functions used by the addon)
\* ------------------------------------------------------------------------

\* s[i:] for a 0-based index i
StrFrom(s, i) == SubSeq(s, i + 1, Len(s))

\* s.startswith(prefix)
startswith(s, prefix) ==
    /\ Len(prefix) <= Len(s)
    /\ SubSeq(s, 1, Len(prefix)) = prefix

\* s.lstrip(chars)
RECURSIVE lstrip(_, _)
lstrip(s, chars) ==
    IF s # <<>> /\ s[1] \in chars THEN lstrip(Tail(s), chars) ELSE s

\* s.rstrip(chars)
RECURSIVE rstrip(_, _)
rstrip(s, chars) ==
    IF s # <<>> /\ s[Len(s)] \in chars THEN rstrip(SubSeq(s, 1, Len(s) - 1), chars) ELSE s

\* s.split(sep) for a one-character separator: the list of the pieces
RECURSIVE split(_, _)
split(s, sep) ==
    IF \A i \in 1..Len(s) : s[i] # sep
    THEN <<s>>
    ELSE LET i == CHOOSE k \in 1..Len(s) : s[k] = sep /\ \A j \in 1..(k - 1) : s[j] # sep
         IN  <<SubSeq(s, 1, i - 1)>> \o split(SubSeq(s, i + 1, Len(s)), sep)

\* sep.join(parts)
RECURSIVE join(_, _)
join(parts, sep) ==
    IF parts = <<>> THEN <<>>
    ELSE IF Len(parts) = 1 THEN parts[1]
    ELSE parts[1] \o <<sep>> \o join(Tail(parts), sep)

\* the home directory os.path.expanduser substitutes for a leading "~"
HomeDir == <<"/", "h">>

\* os.path.expanduser(path) (posixpath): "~" and "~/..." are replaced by the
\* home directory; "~name" of a user the system does not know is left alone
expanduser(path) ==
    IF ~startswith(path, <<"~">>) THEN path
    ELSE LET slashes == {k \in 2..Len(path) : path[k] = "/"}
             i == IF slashes = {} THEN Len(path)
                  ELSE (CHOOSE k \in slashes : \A j \in slashes : k <= j) - 1
         IN  IF i # 1 THEN path
             ELSE LET r == rstrip(HomeDir, {"/"}) \o StrFrom(path, i)
                  IN  IF r = <<>> THEN <<"/">> ELSE r

\* the loop of posixpath.normpath over the components of the path
RECURSIVE NormComps(_, _, _)
NormComps(comps, new_comps, initial_slashes) ==
    IF comps = <<>> THEN new_comps
    ELSE LET comp == comps[1]
             rest == Tail(comps)
             n == Len(new_comps)
         IN  IF comp = <<>> \/ comp = <<".">>
             THEN NormComps(rest, new_comps, initial_slashes)
             ELSE IF \/ comp # <<".", ".">>
                     \/ (initial_slashes = 0 /\ n = 0)
                     \/ (n > 0 /\ new_comps[n] = <<".", ".">>)
             THEN NormComps(rest, Append(new_comps, comp), initial_slashes)
             ELSE IF n > 0
             THEN NormComps(rest, SubSeq(new_comps, 1, n - 1), initial_slashes)
             ELSE NormComps(rest, new_comps, initial_slashes)

\* os.path.normpath(path) (posixpath)
normpath(path) ==
    IF path = <<>> THEN <<".">>
    ELSE LET initial_slashes ==
                 IF ~startswith(path, <<"/">>) THEN 0
                 ELSE IF startswith(path, <<"/", "/">>) /\ ~startswith(path, <<"/", "/", "/">>)
                 THEN 2 ELSE 1
             comps == NormComps(split(path, "/"), <<>>, initial_slashes)
             joined == join(comps, "/")
             p == IF initial_slashes = 2 THEN <<"/", "/">> \o joined
                  ELSE IF initial_slashes = 1 THEN <<"/">> \o joined
                  ELSE joined
         IN  IF p = <<>> THEN <<".">> ELSE p

\* os.path.basename(path) (posixpath): what follows the last "/"
basename(path) ==
    LET slashes == {k \in 1..Len(path) : path[k] = "/"}
        i == IF slashes = {} THEN 0 ELSE CHOOSE k \in slashes : \A j \in slashes : j <= k
    IN  StrFrom(path, i)

\* remove_file_prefix(file_path, prefix)
remove_file_prefix(file_path, prefix) ==
    IF startswith(file_path, prefix)
    THEN lstrip(StrFrom(file_path, Len(prefix)), {"\\", "/"})
    ELSE file_path

\* ------------------------------------------------------------------------
\* dict helpers
\* ------------------------------------------------------------------------

\* d[k] = v (the key is added when it is new)
DictSet(d, k, v) == (k :> v) @@ d

\* d.get(k, default)
DictGet(d, k, default) == IF k \in DOMAIN d THEN d[k] ELSE default

\* x in list
InList(x, list) == \E i \in 1..Len(list) : list[i] = x

\* ------------------------------------------------------------------------
\* Suppression registry
\* ------------------------------------------------------------------------

\* the most addSuppressedRule calls of one behaviour
MaxAdds == 3

\* the largest line number of a suppression or of a reported location
MaxLine == 2

\* the arguments of one addSuppressedRule call
Call(ruleNum, fileName, lineNumber, symbolName) ==
    [ruleNum |-> ruleNum, fileName |-> fileName,
     lineNumber |-> lineNumber, symbolName |-> symbolName]

\* MisraChecker.addSuppressedRule without the search for an existing item
\* (the item is appended whenever the rule and the file are known)
addSuppressedRule_NoSearch(sr, ruleNum, fileName, lineNumber, symbolName) ==
    LET normalized_filename ==
            IF fileName # None THEN Some(normpath(expanduser(fileName[1]))) ELSE None
        line_symbol ==
            IF lineNumber # None \/ symbolName # None
            THEN <<lineNumber, symbolName>> ELSE None
        fileDict == DictGet(sr, ruleNum, <<>>)
        ruleItemList == DictGet(fileDict, normalized_filename, <<>>)
    IN  DictSet(sr, ruleNum,
                DictSet(fileDict, normalized_filename, Append(ruleItemList, line_symbol)))

\* MisraChecker.addSuppressedRule(ruleNum, fileName, lineNumber, symbolName):
\* the registry after the call
addSuppressedRule(sr, ruleNum, fileName, lineNumber, symbolName) ==
    LET normalized_filename ==
            IF fileName # None THEN Some(normpath(expanduser(fileName[1]))) ELSE None
        line_symbol ==
            IF lineNumber # None \/ symbolName # None
            THEN <<lineNumber, symbolName>> ELSE None
    IN  IF ruleNum \notin DOMAIN sr
        THEN DictSet(sr, ruleNum, DictSet(<<>>, normalized_filename, <<line_symbol>>))
        ELSE LET fileDict == sr[ruleNum]
             IN  IF normalized_filename \notin DOMAIN fileDict
                 THEN DictSet(sr, ruleNum,
                              DictSet(fileDict, normalized_filename, <<line_symbol>>))
                 ELSE LET ruleItemList == fileDict[normalized_filename]
                          matched ==
                              \E i \in 1..Len(ruleItemList) :
                                  /\ ruleItemList[i] # None
                                  /\ ruleItemList[i][1] = line_symbol[1]
                                  /\ ruleItemList[i][2] = line_symbol[2]
                          appended ==
                              DictSet(sr, ruleNum,
                                      DictSet(fileDict, normalized_filename,
                                              Append(ruleItemList, line_symbol)))
                      IN  IF line_symbol = None
                          THEN IF ~InList(line_symbol, ruleItemList) THEN appended ELSE sr
                          ELSE IF ~matched THEN appended ELSE sr

\* MisraChecker.isRuleSuppressed with the file looked up before the global
\* entry (a rule suppressed globally is then suppressed in known files only)
isRuleSuppressed_FileFirst(sr, prefix, file_path, linenr, ruleNum) ==
    LET filename ==
            IF file_path # None
            THEN IF prefix # None
                 THEN Some(remove_file_prefix(file_path[1], prefix[1]))
                 ELSE Some(basename(file_path[1]))
            ELSE None
    IN  /\ ruleNum \in DOMAIN sr
        /\ filename \in DOMAIN sr[ruleNum]
        /\ \/ None \in DOMAIN sr[ruleNum]
           \/ InList(None, sr[ruleNum][filename])
           \/ \E i \in 1..Len(sr[ruleNum][filename]) :
                  sr[ruleNum][filename][i][1] = linenr

\* MisraChecker.isRuleSuppressed that compares the symbol as well as the line
isRuleSuppressed_Symbol(sr, prefix, file_path, linenr, ruleNum) ==
    LET filename ==
            IF file_path # None
            THEN IF prefix # None
                 THEN Some(remove_file_prefix(file_path[1], prefix[1]))
                 ELSE Some(basename(file_path[1]))
            ELSE None
    IN  /\ ruleNum \in DOMAIN sr
        /\ \/ None \in DOMAIN sr[ruleNum]
           \/ /\ filename \in DOMAIN sr[ruleNum]
              /\ \/ InList(None, sr[ruleNum][filename])
                 \/ \E i \in 1..Len(sr[ruleNum][filename]) :
                        /\ sr[ruleNum][filename][i][1] = linenr
                        /\ sr[ruleNum][filename][i][2] = None

\* MisraChecker.isRuleSuppressed(file_path, linenr, ruleNum)
isRuleSuppressed(sr, prefix, file_path, linenr, ruleNum) ==
    LET filename ==
            IF file_path # None
            THEN IF prefix # None
                 THEN Some(remove_file_prefix(file_path[1], prefix[1]))
                 ELSE Some(basename(file_path[1]))
            ELSE None
    IN  IF ruleNum \in DOMAIN sr
        THEN LET fileDict == sr[ruleNum]
             IN  IF None \in DOMAIN fileDict
                 THEN TRUE
                 ELSE IF filename \in DOMAIN fileDict
                 THEN LET ruleItemList == fileDict[filename]
                      IN  IF InList(None, ruleItemList)
                          THEN TRUE
                          ELSE \E i \in 1..Len(ruleItemList) :
                                   /\ ruleItemList[i] # None
                                   /\ ruleItemList[i][1] = linenr
                 ELSE FALSE
        ELSE FALSE

\* MisraChecker.isRuleGloballySuppressed(rule_num)
isRuleGloballySuppressed(sr, rule_num) ==
    IF rule_num \notin DOMAIN sr THEN FALSE ELSE None \in DOMAIN sr[rule_num]

\* ------------------------------------------------------------------------
\* Reporting: reportError, executeCheck, the verify lists
\* ------------------------------------------------------------------------

Digits == <<"0", "1", "2", "3", "4", "5", "6", "7", "8", "9">>

IsDigit(c) == \E i \in 1..Len(Digits) : Digits[i] = c

\* str(n) for an int n >= 0
RECURSIVE str(_)
str(n) == IF n < 10 THEN <<Digits[n + 1]>> ELSE str(n \div 10) \o <<Digits[(n % 10) + 1]>>

\* sub in s
Contains(s, sub) ==
    \E i \in 0..(Len(s) - Len(sub)) : SubSeq(s, i + 1, i + Len(sub)) = sub

\* re.compile(r'[0-9]+\.[0-9]+').match(word): digits, a dot and a digit at
\* the start of the word
MatchesRuleTag(word) ==
    LET nondigit == {k \in 1..Len(word) : ~IsDigit(word[k])}
        k == IF nondigit = {} THEN Len(word) + 1
             ELSE CHOOSE x \in nondigit : \A y \in nondigit : x <= y
    IN  /\ k >= 2
        /\ Len(word) >= k + 1
        /\ word[k] = "."
        /\ IsDigit(word[k + 1])

\* the entries parseDump appends to verify_expected for the words of one comment
RECURSIVE ExpectedOfWords(_, _)
ExpectedOfWords(words, linenr) ==
    IF words = <<>> THEN <<>>
    ELSE (IF MatchesRuleTag(words[1])
          THEN <<str(linenr) \o <<":">> \o words[1]>> ELSE <<>>)
         \o ExpectedOfWords(Tail(words), linenr)

\* the same with the comments that contain TODO read like the others
RECURSIVE ExpectedOfTokens_WithTodo(_)
ExpectedOfTokens_WithTodo(toks) ==
    IF toks = <<>> THEN <<>>
    ELSE LET tok == toks[1]
         IN  (IF startswith(tok.str, <<"/", "/">>)
              THEN ExpectedOfWords(split(StrFrom(tok.str, 2), " "), tok.linenr)
              ELSE <<>>)
             \o ExpectedOfTokens_WithTodo(Tail(toks))

\* parseDump (verify mode): the entries appended to verify_expected for the
\* raw tokens of the dump
RECURSIVE ExpectedOfTokens(_)
ExpectedOfTokens(toks) ==
    IF toks = <<>> THEN <<>>
    ELSE LET tok == toks[1]
         IN  (IF startswith(tok.str, <<"/", "/">>) /\ ~Contains(tok.str, <<"T", "O", "D", "O">>)
              THEN ExpectedOfWords(split(StrFrom(tok.str, 2), " "), tok.linenr)
              ELSE <<>>)
             \o ExpectedOfTokens(Tail(toks))

\* str(location.linenr) + ':' + str(num1) + '.' + str(num2)
ActualEntry(linenr, num1, num2) ==
    str(linenr) \o <<":">> \o str(num1) \o <<".">> \o str(num2)

\* the part of the checker a report writes
ReportState(va, stats, viol, rep) ==
    [verify_actual |-> va, suppressionStats |-> stats, violations |-> viol, reported |-> rep]

\* MisraChecker.reportError with a suppressed violation that is dropped
\* without being counted
reportError_NoCount(st, vfy, sr, prefix, texts, location, num1, num2) ==
    LET ruleNum == num1 * 100 + num2
    IN  IF vfy
        THEN [st EXCEPT !.verify_actual = Append(@, ActualEntry(location.linenr, num1, num2))]
        ELSE IF isRuleSuppressed(sr, prefix, Some(location.file), Some(location.linenr), ruleNum)
        THEN st
        ELSE LET errorId == <<"c2012-">> \o str(num1) \o <<".">> \o str(num2)
                 misra_severity ==
                     IF ruleNum \in DOMAIN texts /\ texts[ruleNum].misra_severity # ""
                     THEN texts[ruleNum].misra_severity ELSE "Undefined"
                 errmsg ==
                     IF ruleNum \in DOMAIN texts THEN texts[ruleNum].text
                     ELSE "misra violation (use --rule-texts=<file> to get proper output)"
             IN  IF ruleNum \notin DOMAIN texts /\ DOMAIN texts # {}
                 THEN st
                 ELSE [st EXCEPT
                         !.reported = Append(@, [file |-> location.file,
                                                 linenr |-> location.linenr,
                                                 severity |-> "style",
                                                 message |-> errmsg,
                                                 addon |-> "misra",
                                                 errorId |-> errorId,
                                                 extra |-> misra_severity]),
                         !.violations =
                             DictSet(@, misra_severity,
                                     Append(DictGet(@, misra_severity, <<>>),
                                            <<"misra-">> \o errorId))]

\* MisraChecker.reportError with a violation dropped when its error id is in
\* the severity bucket already
reportError_Once(st, vfy, sr, prefix, texts, location, num1, num2) ==
    LET ruleNum == num1 * 100 + num2
    IN  IF vfy
        THEN [st EXCEPT !.verify_actual = Append(@, ActualEntry(location.linenr, num1, num2))]
        ELSE IF isRuleSuppressed(sr, prefix, Some(location.file), Some(location.linenr), ruleNum)
        THEN [st EXCEPT !.suppressionStats =
                 DictSet(@, ruleNum, DictGet(@, ruleNum, 0) + 1)]
        ELSE LET errorId == <<"c2012-">> \o str(num1) \o <<".">> \o str(num2)
                 misra_severity ==
                     IF ruleNum \in DOMAIN texts /\ texts[ruleNum].misra_severity # ""
                     THEN texts[ruleNum].misra_severity ELSE "Undefined"
                 errmsg ==
                     IF ruleNum \in DOMAIN texts THEN texts[ruleNum].text
                     ELSE "misra violation (use --rule-texts=<file> to get proper output)"
             IN  IF \/ ruleNum \notin DOMAIN texts /\ DOMAIN texts # {}
                    \/ InList(<<"misra-">> \o errorId,
                              DictGet(st.violations, misra_severity, <<>>))
                 THEN st
                 ELSE [st EXCEPT
                         !.reported = Append(@, [file |-> location.file,
                                                 linenr |-> location.linenr,
                                                 severity |-> "style",
                                                 message |-> errmsg,
                                                 addon |-> "misra",
                                                 errorId |-> errorId,
                                                 extra |-> misra_severity]),
                         !.violations =
                             DictSet(@, misra_severity,
                                     Append(DictGet(@, misra_severity, <<>>),
                                            <<"misra-">> \o errorId))]

\* MisraChecker.reportError with a severity bucket that is made anew for
\* every violation
reportError_NewBucket(st, vfy, sr, prefix, texts, location, num1, num2) ==
    LET ruleNum == num1 * 100 + num2
    IN  IF vfy
        THEN [st EXCEPT !.verify_actual = Append(@, ActualEntry(location.linenr, num1, num2))]
        ELSE IF isRuleSuppressed(sr, prefix, Some(location.file), Some(location.linenr), ruleNum)
        THEN [st EXCEPT !.suppressionStats =
                 DictSet(@, ruleNum, DictGet(@, ruleNum, 0) + 1)]
        ELSE LET errorId == <<"c2012-">> \o str(num1) \o <<".">> \o str(num2)
                 misra_severity ==
                     IF ruleNum \in DOMAIN texts /\ texts[ruleNum].misra_severity # ""
                     THEN texts[ruleNum].misra_severity ELSE "Undefined"
                 errmsg ==
                     IF ruleNum \in DOMAIN texts THEN texts[ruleNum].text
                     ELSE "misra violation (use --rule-texts=<file> to get proper output)"
             IN  IF ruleNum \notin DOMAIN texts /\ DOMAIN texts # {}
                 THEN st
                 ELSE [st EXCEPT
                         !.reported = Append(@, [file |-> location.file,
                                                 linenr |-> location.linenr,
                                                 severity |-> "style",
                                                 message |-> errmsg,
                                                 addon |-> "misra",
                                                 errorId |-> errorId,
                                                 extra |-> misra_severity]),
                         !.violations =
                             DictSet(@, misra_severity, <<<<"misra-">> \o errorId>>)]

\* MisraChecker.reportError(location, num1, num2)
reportError(st, vfy, sr, prefix, texts, location, num1, num2) ==
    LET ruleNum == num1 * 100 + num2
    IN  IF vfy
        THEN [st EXCEPT !.verify_actual = Append(@, ActualEntry(location.linenr, num1, num2))]
        ELSE IF isRuleSuppressed(sr, prefix, Some(location.file), Some(location.linenr), ruleNum)
        THEN [st EXCEPT !.suppressionStats =
                 DictSet(@, ruleNum, DictGet(@, ruleNum, 0) + 1)]
        ELSE LET errorId == <<"c2012-">> \o str(num1) \o <<".">> \o str(num2)
                 misra_severity ==
                     IF ruleNum \in DOMAIN texts /\ texts[ruleNum].misra_severity # ""
                     THEN texts[ruleNum].misra_severity ELSE "Undefined"
                 errmsg ==
                     IF ruleNum \in DOMAIN texts THEN texts[ruleNum].text
                     ELSE "misra violation (use --rule-texts=<file> to get proper output)"
             IN  IF ruleNum \notin DOMAIN texts /\ DOMAIN texts # {}
                 THEN st
                 ELSE [st EXCEPT
                         !.reported = Append(@, [file |-> location.file,
                                                 linenr |-> location.linenr,
                                                 severity |-> "style",
                                                 message |-> errmsg,
                                                 addon |-> "misra",
                                                 errorId |-> errorId,
                                                 extra |-> misra_severity]),
                         !.violations =
                             DictSet(@, misra_severity,
                                     Append(DictGet(@, misra_severity, <<>>),
                                            <<"misra-">> \o errorId))]

\* a check function: reportError at every location the rule finds, in order
RECURSIVE RunCheck(_, _, _, _, _, _, _, _)
RunCheck(st, vfy, sr, prefix, texts, locations, num1, num2) ==
    IF locations = <<>> THEN st
    ELSE RunCheck(reportError(st, vfy, sr, prefix, texts, locations[1], num1, num2),
                  vfy, sr, prefix, texts, Tail(locations), num1, num2)

\* a check function makes these calls of self.reportError(location, num1,
\* num2) on the checker, one after the other: locations[i] is the token,
\* scope start or directive of calls[i]
Reporting(calls, locations) ==
    LET RECURSIVE ReportCalls(_, _)
        ReportCalls(st, i) ==
            IF i > Len(calls) THEN st
            ELSE ReportCalls(reportError(st, verify, suppressedRules, filePrefix,
                                         ruleTexts, locations[i], calls[i].num1,
                                         calls[i].num2),
                             i + 1)
    IN  \E st \in {ReportCalls(ReportState(verify_actual, suppressionStats,
                                           violations, reported), 1)} :
            /\ errors' = errors \o calls
            /\ verify_actual' = st.verify_actual
            /\ suppressionStats' = st.suppressionStats
            /\ violations' = st.violations
            /\ reported' = st.reported

\* MisraChecker.executeCheck(rule_num, check_function, arg), where the check
\* function reports rule num1.num2 at the locations it finds in arg
executeCheck(st, vfy, sr, prefix, texts, rule_num, locations, num1, num2) ==
    IF ~isRuleGloballySuppressed(sr, rule_num)
    THEN RunCheck(st, vfy, sr, prefix, texts, locations, num1, num2)
    ELSE st

\* the executeCheck calls of parseDump that are modelled, in its order:
\* 15.1 (once per configuration), 16.3 (raw tokens, first configuration
\* only), 20.7 (once per configuration, registered under 2006)
Checks ==
    << [rule_num |-> 1501, fn |-> "misra_15_1", num1 |-> 15, num2 |-> 1, raw |-> FALSE],
       [rule_num |-> 1603, fn |-> "misra_16_3", num1 |-> 16, num2 |-> 3, raw |-> TRUE],
       [rule_num |-> 2006, fn |-> "misra_20_7", num1 |-> 20, num2 |-> 7, raw |-> FALSE] >>

CheckFns == {Checks[i].fn : i \in 1..Len(Checks)}

\* the position <<cfgNumber, index in Checks>> of the executeCheck call that
\* follows position <<cfg, idx>> in a dump of n configurations; <<0, 0>> when
\* the loop over the configurations is over
RECURSIVE NextCall(_, _, _)
NextCall(cfg, idx, n) ==
    IF cfg > n THEN <<0, 0>>
    ELSE IF idx < Len(Checks)
    THEN IF Checks[idx + 1].raw /\ cfg # 1
         THEN NextCall(cfg, idx + 1, n)
         ELSE <<cfg, idx + 1>>
    ELSE IF cfg < n THEN NextCall(cfg + 1, 0, n)
    ELSE <<0, 0>>

\* MisraChecker.parseSuppressions: the addSuppressedRule calls for the
\* suppressions of the dump, in order
RECURSIVE SuppressionCalls(_)
SuppressionCalls(dumpfileSuppressions) ==
    IF dumpfileSuppressions = <<>> THEN <<>>
    ELSE LET each == dumpfileSuppressions[1]
         IN  (IF each.errorId[1] \in {"misra", "MISRA"}
              THEN <<Call(each.errorId[2] * 100 + each.errorId[3], each.fileName,
                          each.lineNumber, each.symbolName)>>
              ELSE <<>>)
             \o SuppressionCalls(Tail(dumpfileSuppressions))

\* MisraChecker.setSuppressionList: the addSuppressedRule calls for the rules
\* of --suppress-rules, in order
SuppressionListCalls(rules) ==
    [i \in 1..Len(rules) |-> Call(rules[i][1] * 100 + rules[i][2], None, None, None)]

\* the registry after the calls
RECURSIVE AddAll(_, _)
AddAll(sr, calls) ==
    IF calls = <<>> THEN sr
    ELSE IF Len(calls) = 1
    THEN addSuppressedRule(sr, calls[1].ruleNum, calls[1].fileName,
                           calls[1].lineNumber, calls[1].symbolName)
    ELSE CHOOSE r \in {AddAll(first, SubSeq(calls, Len(calls) \div 2 + 1, Len(calls))) :
                           first \in {AddAll(sr, SubSeq(calls, 1, Len(calls) \div 2))}} : TRUE

\* main, verify mode: the lines written after a dump was parsed
RECURSIVE NotSeen(_, _)
NotSeen(expected, actual) ==
    IF expected = <<>> THEN <<>>
    ELSE (IF ~InList(expected[1], actual)
          THEN << <<"Expected but not seen: ", expected[1]>> >> ELSE <<>>)
         \o NotSeen(Tail(expected), actual)

RECURSIVE NotExpected(_, _)
NotExpected(actual, expected) ==
    IF actual = <<>> THEN <<>>
    ELSE (IF ~InList(actual[1], expected)
          THEN << <<"Not expected: ", actual[1]>> >> ELSE <<>>)
         \o NotExpected(Tail(actual), expected)

\* ------------------------------------------------------------------------
\* The registry as an object: calls of its methods in any order (SpecReg)
\* ------------------------------------------------------------------------

\* rule numbers in hundreds format: 16.3 and 20.7
RegRules == {1603, 2007}

\* file names and file paths: "a", "b", "d/a", "./a", "/p/a"
RegPaths ==
    { <<"a">>, <<"b">>, <<"d", "/", "a">>, <<".", "/", "a">>, <<"/", "p", "/", "a">> }

\* the values of --file-prefix: "/p" and "d"
RegPrefixes == { <<"/", "p">>, <<"d">> }

\* line numbers of suppressions and of reported locations
Lines == 1..MaxLine

\* the argument tuples addSuppressedRule is called with
RegCalls ==
    { Call(1603, None, None, None),
      Call(2007, None, None, None),
      Call(1603, None, None, Some("s")),
      Call(1603, Some(<<"a">>), None, None),
      Call(1603, Some(<<"a">>), None, Some("s")),
      Call(1603, Some(<<"a">>), Some(1), Some("s")),
      Call(2007, Some(<<"a">>), Some(2), None),
      Call(1603, Some(<<"d", "/", "a">>), Some(1), None),
      Call(1603, Some(<<"/", "p", "/", "a">>), Some(2), None),
      Call(1603, Some(<<".", "/", "a">>), Some(1), None) }
    \cup { Call(1603, Some(<<"a">>), Some(l), None) : l \in Lines }

\* typeBits as the module defines it
TypeBitsInit ==
    [k \in {"CHAR", "SHORT", "INT", "LONG", "LONG_LONG", "POINTER"} |-> None]

\* MisraChecker.__init__, and main before it reads its arguments
InitChecker ==
    /\ suppressedRules = <<>>
    /\ filePrefix = None
    /\ added = <<>>
    /\ ruleTexts = <<>>
    /\ suppressionStats = <<>>
    /\ verify_expected = <<>>
    /\ verify_actual = <<>>
    /\ violations = <<>>
    /\ typeBits = TypeBitsInit
    /\ reported = <<>>
    /\ printed = <<>>
    /\ exitCode = 0
    /\ data = None
    /\ cfgNumber = 0
    /\ checkIdx = 0
    /\ found = <<>>
    /\ seenTokens = <<>>

\* no rule function is under test
InitNoRule ==
    /\ rawTokens = <<>>
    /\ token = 0
    /\ state = 0
    /\ end_swtich_token = None
    /\ tokenlist = <<>>
    /\ executed = <<>>
    /\ runs = <<>>
    /\ essential = <<>>
    /\ returned = <<>>
    /\ ifStack = <<>>
    /\ frames = <<>>
    /\ visited = {}
    /\ errors = <<>>

InitReg ==
    /\ InitChecker
    /\ InitNoRule
    /\ verify = FALSE
    /\ dumpfiles = <<>>
    /\ pc = "registry"

\* one call of addSuppressedRule
AddSuppressedRule(c) ==
    /\ pc = "registry"
    /\ Len(added) < MaxAdds
    /\ suppressedRules' =
           addSuppressedRule(suppressedRules, c.ruleNum, c.fileName,
                             c.lineNumber, c.symbolName)
    /\ added' = Append(added, c)
    /\ UNCHANGED <<filePrefix, runVars, ruleVars>>

\* MisraChecker.setFilePrefix(prefix)
SetFilePrefix(prefix) ==
    /\ pc = "registry"
    /\ filePrefix' = Some(prefix)
    /\ UNCHANGED <<suppressedRules, added, runVars, ruleVars>>

NextReg ==
    \/ \E c \in RegCalls : AddSuppressedRule(c)
    \/ \E prefix \in RegPrefixes : SetFilePrefix(prefix)

SpecReg == InitReg /\ [][NextReg]_vars

\* the locations and rules isRuleSuppressed is asked about
QueryPaths == RegPaths

QueryRules == RegRules \cup {1501}

\* C1: a call of addSuppressedRule with arguments identical to those of an
\* earlier call leaves the registry as it is (no second item, no second
\* whole-file entry, no new file key, no new rule key).
C1_AddIdempotent ==
    \A i \in 1..Len(added) :
        addSuppressedRule(suppressedRules, added[i].ruleNum, added[i].fileName,
                          added[i].lineNumber, added[i].symbolName) = suppressedRules

\* a tuple was added, another one for the same rule and file after it, and
\* then the first one again
C1_Witness ==
    /\ Len(added) = 3
    /\ added[1] = added[3]
    /\ added[1] # added[2]
    /\ added[1].ruleNum = added[2].ruleNum
    /\ added[1].fileName = added[2].fileName
    /\ added[1].fileName # None
    /\ Len(suppressedRules[added[1].ruleNum][Some(normpath(added[1].fileName[1]))]) = 2

\* the file key isRuleSuppressed looks a queried path up with
LookupKey(prefix, file_path) ==
    IF prefix # None THEN Some(remove_file_prefix(file_path, prefix[1]))
    ELSE Some(basename(file_path))

\* the registry holds a global entry for the rule (a file key of None)
HoldsGlobalEntry(sr, ruleNum) ==
    /\ ruleNum \in DOMAIN sr
    /\ \E k \in DOMAIN sr[ruleNum] : k = None

\* the registry holds a whole-file entry for the rule under the file key
HoldsWholeFileEntry(sr, ruleNum, key) ==
    /\ ruleNum \in DOMAIN sr
    /\ \E k \in DOMAIN sr[ruleNum] :
           /\ k = key
           /\ \E i \in 1..Len(sr[ruleNum][k]) : sr[ruleNum][k][i] = None

\* the registry holds a line entry with that line for the rule under the file key
HoldsLineEntry(sr, ruleNum, key, line) ==
    /\ ruleNum \in DOMAIN sr
    /\ \E k \in DOMAIN sr[ruleNum] :
           /\ k = key
           /\ \E i \in 1..Len(sr[ruleNum][k]) :
                  /\ sr[ruleNum][k][i] # None
                  /\ sr[ruleNum][k][i][1] = Some(line)

\* the kind of entry of the registry that covers the rule at the file and line
EntryFor(sr, prefix, file, linenr, ruleNum) ==
    LET key == LookupKey(prefix, file)
    IN  IF HoldsGlobalEntry(sr, ruleNum) THEN "global"
        ELSE IF HoldsWholeFileEntry(sr, ruleNum, key) THEN "file"
        ELSE IF HoldsLineEntry(sr, ruleNum, key, linenr) THEN "line"
        ELSE "none"

\* C2: isRuleSuppressed(file, line, rule) is true exactly when the registry
\* holds for the rule a global entry, or a whole-file entry under the file key
\* of the queried file, or a line entry under that key whose line is the
\* queried line; it is false for every other file, line and rule.
C2_LookupExact ==
    \A r \in QueryRules : \A f \in QueryPaths : \A l \in Lines :
        isRuleSuppressed(suppressedRules, filePrefix, Some(f), Some(l), r)
            <=> \/ HoldsGlobalEntry(suppressedRules, r)
                \/ HoldsWholeFileEntry(suppressedRules, r, LookupKey(filePrefix, f))
                \/ HoldsLineEntry(suppressedRules, r, LookupKey(filePrefix, f), l)

\* the registry holds a line entry with a symbol and a symbol-only entry for
\* one file: the lookup is true on the entry's line and false on another
\* line, in another file and for another rule
C2_Witness ==
    /\ 1603 \in DOMAIN suppressedRules
    /\ DOMAIN suppressedRules[1603] = {Some(<<"a">>)}
    /\ suppressedRules[1603][Some(<<"a">>)] = << <<None, Some("s")>>, <<Some(1), Some("s")>> >>
    /\ isRuleSuppressed(suppressedRules, filePrefix, Some(<<"a">>), Some(1), 1603)
    /\ ~isRuleSuppressed(suppressedRules, filePrefix, Some(<<"a">>), Some(2), 1603)
    /\ ~isRuleSuppressed(suppressedRules, filePrefix, Some(<<"b">>), Some(1), 1603)
    /\ ~isRuleSuppressed(suppressedRules, filePrefix, Some(<<"a">>), Some(1), 2007)

\* the call added the global sentinel of its rule (no file, line or symbol)
IsGlobalCall(c) == c.fileName = None /\ c.lineNumber = None /\ c.symbolName = None

\* C3: once a rule was added with no file, line or symbol, it is suppressed
\* at every file and line and isRuleGloballySuppressed is true, whatever other
\* entries of the rule were added before or after.
C3_GlobalSuppressesAll ==
    \A i \in 1..Len(added) :
        IsGlobalCall(added[i]) =>
            /\ isRuleGloballySuppressed(suppressedRules, added[i].ruleNum)
            /\ \A f \in QueryPaths : \A l \in Lines :
                   isRuleSuppressed(suppressedRules, filePrefix, Some(f), Some(l),
                                    added[i].ruleNum)

\* the global sentinel of a rule was added between a per-line entry and a
\* whole-file entry of the same rule
C3_Witness ==
    /\ Len(added) = 3
    /\ IsGlobalCall(added[2])
    /\ added[1].ruleNum = added[2].ruleNum /\ added[3].ruleNum = added[2].ruleNum
    /\ added[1].fileName # None /\ added[1].lineNumber # None
    /\ added[3].fileName # None /\ added[3].lineNumber = None
    /\ isRuleSuppressed(suppressedRules, filePrefix, Some(<<"b">>), Some(2), added[2].ruleNum)

\* C4: a suppression added for file F and line L suppresses a violation of
\* the rule reported at the same path F and line L, for every path F.
C4_SamePathSuppressed ==
    \A i \in 1..Len(added) :
        (added[i].fileName # None /\ added[i].lineNumber # None) =>
            isRuleSuppressed(suppressedRules, filePrefix, added[i].fileName,
                             added[i].lineNumber, added[i].ruleNum)

\* ------------------------------------------------------------------------
\* main and parseDump (Spec)
\* ------------------------------------------------------------------------

\* the most configurations of a dump
MaxCfg == 2

Loc(file, linenr) == [file |-> file, linenr |-> linenr]

\* the file of the tokens of a dump
SourceFile == <<"a">>

Tok(text, linenr) == [str |-> text, file |-> SourceFile, linenr |-> linenr]

Sup(errorId, fileName, lineNumber, symbolName) ==
    [errorId |-> errorId, fileName |-> fileName,
     lineNumber |-> lineNumber, symbolName |-> symbolName]

\* data.suppressions of a dump
DumpSuppressions ==
    { <<>>,
      << Sup(<<"misra", 16, 3>>, Some(<<"a">>), Some(1), None) >>,
      << Sup(<<"MISRA", 15, 1>>, Some(<<"a">>), None, None) >>,
      << Sup(<<"nullPointer", 0, 0>>, Some(<<"a">>), Some(1), None),
         Sup(<<"misra", 20, 7>>, Some(<<"d", "/", "a">>), Some(2), None) >> }

\* the comments among data.rawTokens of a dump:
\* "// 16.3", "// TODO 16.3", "/* 16.3 */", "// 15.1 16.3" and "//20.7"
DumpRawTokens ==
    { <<>>,
      << Tok(<<"/", "/", " ", "1", "6", ".", "3">>, 1) >>,
      << Tok(<<"/", "/", " ", "T", "O", "D", "O", " ", "1", "6", ".", "3">>, 1) >>,
      << Tok(<<"/", "*", " ", "1", "6", ".", "3", " ", "*", "/">>, 1) >>,
      << Tok(<<"/", "/", " ", "1", "5", ".", "1", " ", "1", "6", ".", "3">>, 1),
         Tok(<<"/", "/", "2", "0", ".", "7">>, 2) >> }

NothingFound == [fn \in CheckFns |-> <<>>]

\* what the check functions find in a dump (in each configuration, for the
\* configuration-scoped ones)
DumpFound ==
    { NothingFound,
      [NothingFound EXCEPT !["misra_16_3"] = <<Loc(<<"a">>, 1)>>],
      [NothingFound EXCEPT !["misra_20_7"] = <<Loc(<<"d", "/", "a">>, 2)>>],
      [NothingFound EXCEPT !["misra_15_1"] = <<Loc(<<"a">>, 1), Loc(<<"a">>, 2)>>,
                           !["misra_16_3"] = <<Loc(<<"a">>, 1)>>] }

\* data.platform of a dump
Platform ==
    [char_bit |-> 8, short_bit |-> 16, int_bit |-> 32, long_bit |-> 64,
     long_long_bit |-> 64, pointer_bit |-> 64]

Dump(sups, toks, n, fnd) ==
    [suppressions |-> sups, rawTokens |-> toks, configurations |-> n,
     platform |-> Platform, found |-> fnd]

\* what cppcheckdata.parsedump returns
Dumps ==
    { Dump(sups, toks, n, fnd) :
        sups \in DumpSuppressions, toks \in DumpRawTokens,
        n \in 0..MaxCfg, fnd \in DumpFound }

\* the dumps given after another one on a command line
LaterDumps ==
    { Dump(sups, toks, 1, fnd) :
        sups \in {<<>>, << Sup(<<"misra", 16, 3>>, Some(<<"a">>), Some(1), None) >>},
        toks \in {<<>>, << Tok(<<"/", "/", " ", "1", "6", ".", "3">>, 1) >>},
        fnd \in {NothingFound,
                 [NothingFound EXCEPT !["misra_16_3"] = <<Loc(<<"a">>, 1)>>]} }

\* the platform of a dump made for a 16 bit target
Platform16 ==
    [char_bit |-> 8, short_bit |-> 16, int_bit |-> 16, long_bit |-> 32,
     long_long_bit |-> 64, pointer_bit |-> 16]

\* args.dumpfile: one dump, or two, the second made for the same platform
\* as the first or for another one
DumpfileArgs ==
    { <<d>> : d \in Dumps }
    \cup { <<d, [e EXCEPT !.platform = p]>> :
             d \in LaterDumps, e \in LaterDumps, p \in {Platform, Platform16} }

\* what loadRuleTexts reads from the file of --rule-texts: nothing (no file
\* given), the text of 16.3, texts without one for 16.3, and texts of two
\* severities
RuleTextFiles ==
    { <<>>,
      (1603 :> [text |-> "text of 16.3", misra_severity |-> "Required"]),
      (1501 :> [text |-> "text of 15.1", misra_severity |-> ""])
        @@ (2007 :> [text |-> "text of 20.7", misra_severity |-> "Advisory"]),
      (1501 :> [text |-> "text of 15.1", misra_severity |-> ""])
        @@ (1603 :> [text |-> "text of 16.3", misra_severity |-> "Required"]) }

\* the rules of --suppress-rules: none, 16.3, 20.7, and 20.6 with 15.1
SuppressRulesArgs ==
    { <<>>, << <<16, 3>> >>, << <<20, 7>> >>, << <<20, 6>>, <<15, 1>> >> }

\* --file-prefix: not given, or "d"
FilePrefixArgs == { None, Some(<<"d">>) }

Init ==
    /\ InitChecker
    /\ InitNoRule
    /\ verify \in BOOLEAN
    /\ dumpfiles \in DumpfileArgs
    /\ pc = "rule_texts"

\* main: if args.rule_texts: checker.loadRuleTexts(filename)
LoadRuleTexts(texts) ==
    /\ pc = "rule_texts"
    /\ ruleTexts' = texts
    /\ pc' = "suppress_rules"
    /\ UNCHANGED <<regVars, verify, suppressionStats, verify_expected, verify_actual,
                   violations, typeBits, reported, printed, exitCode, dumpfiles, data,
                   cfgNumber, checkIdx, found, seenTokens, ruleVars>>

\* main: if args.suppress_rules: checker.setSuppressionList(args.suppress_rules)
SetSuppressionList(rules) ==
    /\ pc = "suppress_rules"
    /\ suppressedRules' = AddAll(suppressedRules, SuppressionListCalls(rules))
    /\ added' = added \o SuppressionListCalls(rules)
    /\ pc' = "file_prefix"
    /\ UNCHANGED <<filePrefix, verify, ruleTexts, suppressionStats, verify_expected,
                   verify_actual, violations, typeBits, reported, printed, exitCode,
                   dumpfiles, data, cfgNumber, checkIdx, found, seenTokens, ruleVars>>

\* main: if args.file_prefix: checker.setFilePrefix(args.file_prefix)
MainFilePrefix(prefix) ==
    /\ pc = "file_prefix"
    /\ filePrefix' = prefix
    /\ pc' = "dumpfiles"
    /\ UNCHANGED <<suppressedRules, added, verify, ruleTexts, suppressionStats,
                   verify_expected, verify_actual, violations, typeBits, reported,
                   printed, exitCode, dumpfiles, data, cfgNumber, checkIdx, found,
                   seenTokens, ruleVars>>

\* the widths of a platform written to typeBits only when typeBits holds
\* none yet
PlatformBits_Once(bits, platform) ==
    IF bits["INT"] # None THEN bits
    ELSE [bits EXCEPT !["CHAR"] = Some(platform.char_bit),
                      !["SHORT"] = Some(platform.short_bit),
                      !["INT"] = Some(platform.int_bit),
                      !["LONG"] = Some(platform.long_bit),
                      !["LONG_LONG"] = Some(platform.long_long_bit),
                      !["POINTER"] = Some(platform.pointer_bit)]

\* typeBits after parseDump has written the widths of data.platform to it
PlatformBits(bits, platform) ==
    [bits EXCEPT !["CHAR"] = Some(platform.char_bit),
                 !["SHORT"] = Some(platform.short_bit),
                 !["INT"] = Some(platform.int_bit),
                 !["LONG"] = Some(platform.long_bit),
                 !["LONG_LONG"] = Some(platform.long_long_bit),
                 !["POINTER"] = Some(platform.pointer_bit)]

\* the rules parseDump calls executeCheck for, by the number it gives them,
\* in its order
ParseDumpRules ==
    << <<2, 7>>, <<3, 1>>, <<3, 2>>, <<4, 1>>, <<4, 2>>, <<5, 1>>, <<5, 2>>,
       <<5, 3>>, <<5, 4>>, <<5, 5>>, <<7, 1>>, <<7, 3>>, <<8, 11>>, <<8, 12>>,
       <<8, 14>>, <<9, 5>>, <<10, 1>>, <<10, 4>>, <<10, 6>>, <<10, 8>>, <<11, 3>>,
       <<11, 4>>, <<11, 5>>, <<11, 6>>, <<11, 7>>, <<11, 8>>, <<11, 9>>, <<12, 1>>,
       <<12, 2>>, <<12, 3>>, <<12, 4>>, <<13, 1>>, <<13, 3>>, <<13, 4>>, <<13, 5>>,
       <<13, 6>>, <<14, 1>>, <<14, 2>>, <<14, 4>>, <<15, 1>>, <<15, 2>>, <<15, 3>>,
       <<15, 5>>, <<15, 6>>, <<15, 7>>, <<16, 2>>, <<16, 3>>, <<16, 4>>, <<16, 5>>,
       <<16, 6>>, <<16, 7>>, <<17, 1>>, <<17, 2>>, <<17, 6>>, <<17, 7>>, <<17, 8>>,
       <<18, 4>>, <<18, 5>>, <<18, 7>>, <<18, 8>>, <<19, 2>>, <<20, 1>>, <<20, 2>>,
       <<20, 3>>, <<20, 4>>, <<20, 5>>, <<20, 6>>, <<20, 10>>, <<20, 13>>, <<20, 14>>,
       <<21, 1>>, <<21, 3>>, <<21, 4>>, <<21, 5>>, <<21, 6>>, <<21, 7>>, <<21, 8>>,
       <<21, 9>>, <<21, 10>>, <<21, 11>>, <<21, 12>> >>

\* --suppress-rules naming every rule of parseDump but those
AllRulesBut(rules) ==
    SelectSeq(ParseDumpRules, LAMBDA r : r[1] * 100 + r[2] \notin rules)

\* the checker where parseDump, in the first configuration of a dump of the
\* platform Platform, calls executeCheck for the first of those rules: main
\* was given --suppress-rules with every other rule of parseDump, so no
\* check function has run, typeBits is written and nothing is reported yet
InitInDump(rules) ==
    /\ added = SuppressionListCalls(AllRulesBut(rules))
    /\ suppressedRules = AddAll(<<>>, added)
    /\ filePrefix = None
    /\ ruleTexts = <<>>
    /\ suppressionStats = <<>>
    /\ verify_expected = <<>>
    /\ verify_actual = <<>>
    /\ violations = <<>>
    /\ typeBits = PlatformBits(TypeBitsInit, Platform)
    /\ reported = <<>>
    /\ printed = <<>>
    /\ exitCode = 0
    /\ cfgNumber = 1
    /\ checkIdx = 0
    /\ found = <<>>
    /\ seenTokens = <<>>
    /\ verify = FALSE
    /\ dumpfiles = <<>>

\* parseDump up to the loop over the configurations: the dump is read, its
\* suppressions are added, typeBits is set and, in verify mode, the expected
\* violations are read from the comments
ParseDumpStart ==
    /\ pc = "dumpfiles"
    /\ dumpfiles # <<>>
    /\ LET d == dumpfiles[1]
           first == NextCall(1, 0, d.configurations)
       IN  /\ data' = IF first = <<0, 0>> THEN None ELSE d
           /\ dumpfiles' = Tail(dumpfiles)
           /\ suppressedRules' = AddAll(suppressedRules, SuppressionCalls(d.suppressions))
           /\ added' = added \o SuppressionCalls(d.suppressions)
           /\ typeBits' = PlatformBits(typeBits, d.platform)
           /\ verify_expected' =
                  IF verify THEN verify_expected \o ExpectedOfTokens(d.rawTokens)
                  ELSE verify_expected
           /\ seenTokens' = seenTokens \o d.rawTokens
           /\ cfgNumber' = first[1]
           /\ checkIdx' = first[2]
           /\ pc' = IF first = <<0, 0>> THEN "parsed" ELSE "checks"
           /\ runs' = Append(runs, [dump |-> d,
                                    suppressedRules |-> suppressedRules',
                                    reported |-> Len(reported),
                                    verify_actual |-> Len(verify_actual)])
    /\ UNCHANGED <<filePrefix, verify, ruleTexts, suppressionStats, verify_actual,
                   violations, reported, printed, exitCode, found, rawTokens, token,
                   state, end_swtich_token, tokenlist, executed, essential, returned, ifStack, frames, visited, errors>>

\* one self.executeCheck(...) line of parseDump, and the step to the next one
ExecuteCheck ==
    /\ pc = "checks"
    /\ LET chk == Checks[checkIdx]
           locations == data.found[chk.fn]
           st == executeCheck(ReportState(verify_actual, suppressionStats, violations,
                                          reported),
                              verify, suppressedRules, filePrefix, ruleTexts,
                              chk.rule_num, locations, chk.num1, chk.num2)
           next == NextCall(cfgNumber, checkIdx, data.configurations)
       IN  /\ verify_actual' = st.verify_actual
           /\ suppressionStats' = st.suppressionStats
           /\ violations' = st.violations
           /\ reported' = st.reported
           /\ found' = found \o
                  [i \in 1..Len(locations) |->
                      [num1 |-> chk.num1, num2 |-> chk.num2,
                       file |-> locations[i].file, linenr |-> locations[i].linenr,
                       ran |-> ~isRuleGloballySuppressed(suppressedRules, chk.rule_num),
                       suppressed |->
                           isRuleSuppressed(suppressedRules, filePrefix,
                                            Some(locations[i].file),
                                            Some(locations[i].linenr),
                                            chk.num1 * 100 + chk.num2),
                       by |-> EntryFor(suppressedRules, filePrefix, locations[i].file,
                                       locations[i].linenr, chk.num1 * 100 + chk.num2)]]
           /\ IF next = <<0, 0>>
              THEN /\ pc' = "parsed"
                   /\ data' = None
                   /\ cfgNumber' = 0
                   /\ checkIdx' = 0
              ELSE /\ pc' = "checks"
                   /\ data' = data
                   /\ cfgNumber' = next[1]
                   /\ checkIdx' = next[2]
    /\ UNCHANGED <<regVars, verify, ruleTexts, verify_expected, typeBits, printed,
                   exitCode, dumpfiles, seenTokens, ruleVars>>

\* main after parseDump in verify mode: the two lists are compared, and main
\* exits at the first dump with a mismatch
VerifyDump ==
    /\ pc = "parsed"
    /\ verify
    /\ LET lines == NotSeen(verify_expected, verify_actual)
                     \o NotExpected(verify_actual, verify_expected)
       IN  /\ printed' = printed \o lines
           /\ exitCode' = IF lines # <<>> THEN 1 ELSE exitCode
           /\ pc' = IF lines # <<>> THEN "exit" ELSE "dumpfiles"
    /\ UNCHANGED <<regVars, verify, ruleTexts, suppressionStats, verify_expected,
                   verify_actual, violations, typeBits, reported, dumpfiles, data,
                   cfgNumber, checkIdx, found, seenTokens, ruleVars>>

\* main after parseDump in normal mode: the next dump
NextDump ==
    /\ pc = "parsed"
    /\ ~verify
    /\ pc' = "dumpfiles"
    /\ UNCHANGED <<regVars, verify, ruleTexts, suppressionStats, verify_expected,
                   verify_actual, violations, typeBits, reported, printed, exitCode,
                   dumpfiles, data, cfgNumber, checkIdx, found, seenTokens, ruleVars>>

\* main after the last dump: the exit code
Exit ==
    /\ pc = "dumpfiles"
    /\ dumpfiles = <<>>
    /\ exitCode' = IF ~verify /\ Cardinality(DOMAIN violations) > 0 THEN 1 ELSE exitCode
    /\ pc' = "exit"
    /\ UNCHANGED <<regVars, verify, ruleTexts, suppressionStats, verify_expected,
                   verify_actual, violations, typeBits, reported, printed, dumpfiles,
                   data, cfgNumber, checkIdx, found, seenTokens, ruleVars>>

Next ==
    \/ \E texts \in RuleTextFiles : LoadRuleTexts(texts)
    \/ \E rules \in SuppressRulesArgs : SetSuppressionList(rules)
    \/ \E prefix \in FilePrefixArgs : MainFilePrefix(prefix)
    \/ ParseDumpStart
    \/ ExecuteCheck
    \/ VerifyDump
    \/ NextDump
    \/ Exit

Spec == Init /\ [][Next]_vars

\* the rules the check functions report
ReportedRules == {Checks[i].num1 * 100 + Checks[i].num2 : i \in 1..Len(Checks)}

\* the violations of rule r that reportError was called for in normal mode
\* and that an entry of the registry covered
SuppressedMatches(r) ==
    {i \in 1..Len(found) :
        /\ found[i].num1 * 100 + found[i].num2 = r
        /\ found[i].ran
        /\ found[i].by # "none"}

\* C5: in normal mode the hit counter of each rule is the number of detected
\* violations of the rule that a global, whole-file or line entry
\* suppressed, and nothing else is counted.
C5_HitCounter ==
    ~verify =>
        /\ DOMAIN suppressionStats \subseteq ReportedRules
        /\ \A r \in ReportedRules :
               DictGet(suppressionStats, r, 0) = Cardinality(SuppressedMatches(r))

\* a run has detected a violation under a global entry in each of two
\* configurations and has counted both
C5_Witness ==
    /\ ~verify
    /\ \E i \in 1..Len(found) :
           /\ found[i].ran
           /\ found[i].by = "global"
           /\ DictGet(suppressionStats, found[i].num1 * 100 + found[i].num2, 0) = 2

\* word is major.minor: digits, a dot, digits, and nothing else
IsRuleTag(word) ==
    \E k \in 2..(Len(word) - 1) :
        /\ word[k] = "."
        /\ \A j \in 1..Len(word) : j # k => IsDigit(word[j])

\* the words of a comment, after its first two characters
WordsOf(tok) ==
    LET ws == split(StrFrom(tok.str, 2), " ") IN {ws[n] : n \in 1..Len(ws)}

\* the line:major.minor tags of the // comments among the tokens (of those
\* without TODO only, unless withTodo)
TagsOf(tokens, withTodo) ==
    UNION { { str(tokens[i].linenr) \o <<":">> \o w :
                w \in {x \in WordsOf(tokens[i]) : IsRuleTag(x)} } :
            i \in {j \in 1..Len(tokens) :
                      /\ startswith(tokens[j].str, <<"/", "/">>)
                      /\ withTodo \/ ~Contains(tokens[j].str, <<"T", "O", "D", "O">>)} }

\* the line:major.minor of the violations reportError was called for
Detected ==
    { ActualEntry(found[i].linenr, found[i].num1, found[i].num2) :
        i \in {j \in 1..Len(found) : found[j].ran} }

\* the lines written so far
Written == {printed[i] : i \in 1..Len(printed)}

\* main has compared the lists for every dump parsed so far
Compared == verify /\ pc \in {"dumpfiles", "exit"}

\* the three cases of the comparison, for a set of tags
VerifyOutcome(tags) ==
    /\ \A t \in tags :
          IF t \in Detected
          THEN \A line \in Written : line[2] # t
          ELSE <<"Expected but not seen: ", t>> \in Written
    /\ \A a \in Detected :
          a \notin tags => <<"Not expected: ", a>> \in Written

\* C9 as claimed: in verify mode, with the tags of all // comments as the
\* expected set, a tag detected on its line yields no mismatch, a tag not
\* detected yields "Expected but not seen", and a detected violation without
\* a tag yields "Not expected".
C9_VerifyAllComments == Compared => VerifyOutcome(TagsOf(seenTokens, TRUE))

\* C9: the same three outcomes, the expected set being the tags of the //
\* comments that do not contain TODO.
C9_VerifyOutcome == Compared => VerifyOutcome(TagsOf(seenTokens, FALSE))

\* after the comparison: a tag that was detected and is in no line written,
\* a tag that was not detected, and a detected violation without a tag
C9_Witness ==
    /\ Compared
    /\ \E t \in TagsOf(seenTokens, FALSE) :
           t \in Detected /\ \A line \in Written : line[2] # t
    /\ \E t \in TagsOf(seenTokens, FALSE) :
           t \notin Detected /\ <<"Expected but not seen: ", t>> \in Written
    /\ \E a \in Detected :
           a \notin TagsOf(seenTokens, FALSE) /\ <<"Not expected: ", a>> \in Written

\* C10: in verify mode every violation a check function finds is in
\* verify_actual, whatever suppression exists for its rule, and no hit
\* counter is changed.
C10_VerifyBypassesSuppression ==
    verify =>
        /\ suppressionStats = <<>>
        /\ \A i \in 1..Len(found) :
               InList(ActualEntry(found[i].linenr, found[i].num1, found[i].num2),
                      verify_actual)

\* ---------------------------------------------------------------------
\* Rule 16.3: the raw-token scanner misra_16_3, with findRawLink and
\* simpleMatch.  A raw token is Tok(str, linenr); token.next and
\* token.previous are the neighbours in the stream, a token object is the
\* index of the token in the stream, and 0 stands for no token.
\* ---------------------------------------------------------------------

\* the token texts the scanner tests for
kw_switch == <<"s","w","i","t","c","h">>
kw_case == <<"c","a","s","e">>
kw_default == <<"d","e","f","a","u","l","t">>
kw_break == <<"b","r","e","a","k">>
kw_return == <<"r","e","t","u","r","n">>
kw_throw == <<"t","h","r","o","w">>
kw_fallthrough == <<"f","a","l","l","t","h","r","o","u","g","h">>

\* '[ [ fallthrough ] ] ;', the pattern of the attribute
FallthroughAttribute ==
    <<"[", " ", "[", " ">> \o kw_fallthrough \o <<" ", "]", " ", "]", " ", ";">>

STATE_NONE == 0

STATE_BREAK == 1

STATE_OK == 2

STATE_SWITCH == 3

\* the texts of the tokens are over the characters of ISO 8859-1 (Latin-1),
\* the upper-case letters of which are A to Z and the thirty accented ones;
\* str.lower() maps each to the letter at the same place of LowerCase and
\* leaves every other character of Latin-1 as it is
UpperCase ==
    <<"A","B","C","D","E","F","G","H","I","J","K","L","M",
      "N","O","P","Q","R","S","T","U","V","W","X","Y","Z",
      "À","Á","Â","Ã","Ä","Å","Æ","Ç","È","É","Ê","Ë","Ì",
      "Í","Î","Ï","Ð","Ñ","Ò","Ó","Ô","Õ","Ö","Ø","Ù","Ú",
      "Û","Ü","Ý","Þ">>

LowerCase ==
    <<"a","b","c","d","e","f","g","h","i","j","k","l","m",
      "n","o","p","q","r","s","t","u","v","w","x","y","z",
      "à","á","â","ã","ä","å","æ","ç","è","é","ê","ë","ì",
      "í","î","ï","ð","ñ","ò","ó","ô","õ","ö","ø","ù","ú",
      "û","ü","ý","þ">>

\* s.lower()
lower(s) ==
    [i \in 1..Len(s) |->
        IF \E k \in 1..Len(UpperCase) : UpperCase[k] = s[i]
        THEN LowerCase[CHOOSE k \in 1..Len(UpperCase) : UpperCase[k] = s[i]]
        ELSE s[i]]

\* s.find(sub): the first 0-based position of sub in s, or -1
find(s, sub) ==
    LET at == {i \in 0..(Len(s) - Len(sub)) : SubSeq(s, i + 1, i + Len(sub)) = sub}
    IN  IF at = {} THEN -1 ELSE CHOOSE i \in at : \A j \in at : i <= j

\* the token after / before token object t of a stream (0: none)
NextOf(tokens, t) == IF t >= 1 /\ t < Len(tokens) THEN t + 1 ELSE 0

PreviousOf(tokens, t) == IF t > 1 /\ t <= Len(tokens) THEN t - 1 ELSE 0

\* simpleMatch(token, pattern): the words of the pattern are the texts of
\* the tokens from token on
RECURSIVE MatchWords(_, _, _)
MatchWords(tokens, t, words) ==
    IF words = <<>> THEN TRUE
    ELSE IF t = 0 \/ tokens[t].str # Head(words) THEN FALSE
    ELSE MatchWords(tokens, NextOf(tokens, t), Tail(words))

simpleMatch(tokens, t, pattern) == MatchWords(tokens, t, split(pattern, " "))

\* the search of findRawLink without the count of the nested brackets: the
\* first bracket of the other kind is returned
RECURSIVE FindLink_NoDepth(_, _, _, _, _, _)
FindLink_NoDepth(tokens, t, tok1, tok2, forward, indent) ==
    IF t = 0 THEN None
    ELSE IF tokens[t].str = tok2 THEN Some(t)
    ELSE FindLink_NoDepth(tokens, IF forward THEN NextOf(tokens, t) ELSE PreviousOf(tokens, t),
                          tok1, tok2, forward, indent)

\* the loop of findRawLink
RECURSIVE FindLink(_, _, _, _, _, _)
FindLink(tokens, t, tok1, tok2, forward, indent) ==
    IF t = 0 THEN None
    ELSE IF tokens[t].str = tok1
         THEN FindLink(tokens, IF forward THEN NextOf(tokens, t) ELSE PreviousOf(tokens, t),
                       tok1, tok2, forward, indent + 1)
    ELSE IF tokens[t].str = tok2 /\ indent <= 1 THEN Some(t)
    ELSE FindLink(tokens, IF forward THEN NextOf(tokens, t) ELSE PreviousOf(tokens, t),
                  tok1, tok2, forward,
                  IF tokens[t].str = tok2 THEN indent - 1 ELSE indent)

Openers == <<"{", "(", "[">>

Closers == <<"}", ")", "]">>

\* s[i] of Python for an index i that may be negative
CharAt(s, i) == IF i >= 0 THEN <<s[i + 1]>> ELSE <<s[Len(s) + 1 + i]>>

\* findRawLink(token): the token object of the matching bracket, or None
findRawLink(tokens, t) ==
    LET s == tokens[t].str
    IN  IF Contains(Openers, s)
        THEN FindLink(tokens, t, s, CharAt(Closers, find(Openers, s)), TRUE, 0)
        ELSE IF Contains(Closers, s)
        THEN FindLink(tokens, t, s, CharAt(Openers, find(Closers, s)), FALSE, 0)
        ELSE None

\* prev.str[:2]
FirstTwo(s) == SubSeq(s, 1, IF Len(s) < 2 THEN Len(s) ELSE 2)

\* misra_16_3, "while prev and prev.str[:2] in ('//', '/*')": the first
\* token from t backwards that is no comment
RECURSIVE SkipCommentsBack(_, _)
SkipCommentsBack(tokens, t) ==
    IF t # 0 /\ FirstTwo(tokens[t].str) \in {<<"/", "/">>, <<"/", "*">>}
    THEN SkipCommentsBack(tokens, PreviousOf(tokens, t))
    ELSE t

\* misra_16_3 at a '}' met in STATE_OK: the block is not an unconditional
\* block of code
NotUnconditionalBlock(tokens, t) ==
    LET link == findRawLink(tokens, t)
        prev == IF link # None
                THEN SkipCommentsBack(tokens, PreviousOf(tokens, link[1]))
                ELSE 0
    IN  prev = 0 \/ ~Contains(<<":", ";", "{", "}">>, tokens[prev].str)

ScanResult(st, e, report) == [state |-> st, end_swtich_token |-> e, report |-> report]

\* the body of the loop of misra_16_3 that keeps STATE_OK at the closing
\* brace of every block
misra_16_3_token_AnyBlock(tokens, t, st, e) ==
    LET s == tokens[t].str
        st1 == IF s = kw_switch THEN STATE_SWITCH ELSE st
        e1 == IF st1 = STATE_SWITCH /\ s = <<"{">> THEN findRawLink(tokens, t) ELSE e
    IN  IF st1 = STATE_SWITCH /\ s # <<"{">> THEN ScanResult(st1, e, None)
        ELSE IF s = kw_break \/ s = kw_return \/ s = kw_throw
             THEN ScanResult(STATE_BREAK, e1, None)
        ELSE IF s = <<";">>
             THEN IF st1 = STATE_BREAK THEN ScanResult(STATE_OK, e1, None)
                  ELSE IF NextOf(tokens, t) # 0 /\ Some(NextOf(tokens, t)) = e1
                       THEN ScanResult(st1, e1, Some(NextOf(tokens, t)))
                  ELSE ScanResult(STATE_NONE, e1, None)
        ELSE IF startswith(s, <<"/", "*">>) \/ startswith(s, <<"/", "/">>)
             THEN IF Contains(lower(s), kw_fallthrough)
                  THEN ScanResult(STATE_OK, e1, None)
                  ELSE ScanResult(st1, e1, None)
        ELSE IF simpleMatch(tokens, t, FallthroughAttribute)
             THEN ScanResult(STATE_BREAK, e1, None)
        ELSE IF s = <<"{">> THEN ScanResult(STATE_OK, e1, None)
        ELSE IF s = <<"}">> /\ st1 = STATE_OK
             THEN ScanResult(st1, e1, None)
        ELSE IF s = kw_case \/ s = kw_default
             THEN ScanResult(STATE_OK, e1, IF st1 # STATE_OK THEN Some(t) ELSE None)
        ELSE ScanResult(st1, e1, None)

\* the body of the loop of misra_16_3 for token object t, entered with
\* state st and end_swtich_token e; report is the token reportError is
\* called with, if it is called
misra_16_3_token(tokens, t, st, e) ==
    LET s == tokens[t].str
        st1 == IF s = kw_switch THEN STATE_SWITCH ELSE st
        e1 == IF st1 = STATE_SWITCH /\ s = <<"{">> THEN findRawLink(tokens, t) ELSE e
    IN  IF st1 = STATE_SWITCH /\ s # <<"{">> THEN ScanResult(st1, e, None)
        ELSE IF s = kw_break \/ s = kw_return \/ s = kw_throw
             THEN ScanResult(STATE_BREAK, e1, None)
        ELSE IF s = <<";">>
             THEN IF st1 = STATE_BREAK THEN ScanResult(STATE_OK, e1, None)
                  ELSE IF NextOf(tokens, t) # 0 /\ Some(NextOf(tokens, t)) = e1
                       THEN ScanResult(st1, e1, Some(NextOf(tokens, t)))
                  ELSE ScanResult(STATE_NONE, e1, None)
        ELSE IF startswith(s, <<"/", "*">>) \/ startswith(s, <<"/", "/">>)
             THEN IF Contains(lower(s), kw_fallthrough)
                  THEN ScanResult(STATE_OK, e1, None)
                  ELSE ScanResult(st1, e1, None)
        ELSE IF simpleMatch(tokens, t, FallthroughAttribute)
             THEN ScanResult(STATE_BREAK, e1, None)
        ELSE IF s = <<"{">> THEN ScanResult(STATE_OK, e1, None)
        ELSE IF s = <<"}">> /\ st1 = STATE_OK
             THEN IF NotUnconditionalBlock(tokens, t)
                  THEN ScanResult(STATE_NONE, e1, None)
                  ELSE ScanResult(st1, e1, None)
        ELSE IF s = kw_case \/ s = kw_default
             THEN ScanResult(STATE_OK, e1, IF st1 # STATE_OK THEN Some(t) ELSE None)
        ELSE ScanResult(st1, e1, None)

\* the raw tokens of a source text, given as the texts of its tokens
RawTokensOf(texts) == [i \in 1..Len(texts) |-> Tok(texts[i], 1)]

\* the most statements of S
MaxStmts == 2

\* statements that neither end a switch-clause nor mark a fallthrough
Statements ==
    { << <<"x">>, <<";">> >>,
      << <<"{">>, <<"}">> >>,
      << <<"{">>, <<"x">>, <<";">>, <<"}">> >>,
      << <<"i","f">>, <<"(">>, <<"x">>, <<")">>, <<"{">>, <<"x">>, <<";">>, <<"}">> >>,
      << <<"i","f">>, <<"(">>, <<"x">>, <<")">>, <<"{">>, <<"}">> >>,
      << <<"i","f">>, <<"(">>, <<"x">>, <<")">>, <<"{">>, <<"b","r","e","a","k">>, <<";">>, <<"}">> >>,
      << <<"x">>, <<";">>, <<"/","/"," ","É","c">> >>,
      << <<"w","h","i","l","e">>, <<"(">>, <<"x">>, <<")">>, <<"{">>, <<"}">> >> }

\* what may end a switch-clause: nothing, break, return, throw, the
\* fallthrough attribute, a fallthrough comment
ClauseEnds ==
    { << >>,
      << <<"b","r","e","a","k">>, <<";">> >>,
      << <<"r","e","t","u","r","n">>, <<";">> >>,
      << <<"r","e","t","u","r","n">>, <<"x">>, <<";">> >>,
      << <<"t","h","r","o","w">>, <<"x">>, <<";">> >>,
      << <<"[">>, <<"[">>, <<"f","a","l","l","t","h","r","o","u","g","h">>, <<"]">>, <<"]">>, <<";">> >>,
      << <<"/","/"," ","f","a","l","l","t","h","r","o","u","g","h">> >>,
      << <<"/","*"," ","F","A","L","L","T","H","R","O","U","G","H"," ","*","/">> >> }

\* 'switch ( x ) { case 1 :'
SwitchHead == << <<"s","w","i","t","c","h">>, <<"(">>, <<"x">>, <<")">>, <<"{">>, <<"c","a","s","e">>, <<"1">>, <<":">> >>

\* the rest of the switch after the first clause
SwitchTails ==
    { << <<"c","a","s","e">>, <<"2">>, <<":">>, <<"x">>, <<";">>, <<"b","r","e","a","k">>, <<";">>, <<"}">> >>,
      << <<"c","a","s","e">>, <<"2">>, <<":">>, <<"x">>, <<";">>, <<"}">> >>,
      << <<"d","e","f","a","u","l","t">>, <<":">>, <<"b","r","e","a","k">>, <<";">>, <<"}">> >> }

RECURSIVE StatementLists(_)
StatementLists(n) ==
    IF n = 0 THEN {<<>>}
    ELSE LET shorter == StatementLists(n - 1)
         IN  shorter \cup {l \o st : l \in shorter, st \in Statements}

\* a switch inside a switch-clause: 'switch ( y ) { case 3 : ... }', ended
\* by 'break ;' or by 'x ;'
NestedSwitches ==
    { << <<"s","w","i","t","c","h">>, <<"(">>, <<"y">>, <<")">>, <<"{">>, <<"c","a","s","e">>, <<"3">>, <<":">>,
         <<"b","r","e","a","k">>, <<";">>, <<"}">> >>,
      << <<"s","w","i","t","c","h">>, <<"(">>, <<"y">>, <<")">>, <<"{">>, <<"c","a","s","e">>, <<"3">>, <<":">>,
         <<"x">>, <<";">>, <<"}">> >> }

\* the sources given to misra_16_3: switch ( x ) { case 1 : S E case 2 : ... }
\* with S statements or a nested switch
SwitchSources ==
    { SwitchHead \o S \o E \o T :
        S \in (StatementLists(MaxStmts) \ {<<>>}) \cup NestedSwitches,
        E \in ClauseEnds, T \in SwitchTails }


\* a call of misra_16_3(rawTokens) that has not started its loop
InitFall ==
    /\ InitInDump({1603})
    /\ pc = "misra_16_3"
    /\ rawTokens \in {RawTokensOf(src) : src \in SwitchSources}
    /\ data = [rawTokens |-> rawTokens]
    /\ token = 1
    /\ state = STATE_NONE
    /\ end_swtich_token = None
    /\ tokenlist = <<>>
    /\ executed = <<>>
    /\ runs = <<>>
    /\ essential = <<>>
    /\ returned = <<>>
    /\ ifStack = <<>>
    /\ frames = <<>>
    /\ visited = {}
    /\ errors = <<>>

\* one turn of the loop of misra_16_3
Misra_16_3_Token ==
    /\ pc = "misra_16_3"
    /\ token <= Len(rawTokens)
    /\ LET r == misra_16_3_token(rawTokens, token, state, end_swtich_token)
       IN  /\ state' = r.state
           /\ end_swtich_token' = r.end_swtich_token
           /\ IF r.report = None THEN Reporting(<<>>, <<>>)
              ELSE Reporting(<<[token |-> r.report[1], num1 |-> 16, num2 |-> 3]>>,
                             <<rawTokens[r.report[1]]>>)
    /\ token' = token + 1
    /\ UNCHANGED <<regVars, verify, ruleTexts, verify_expected, typeBits, printed, exitCode,
                   dumpfiles, data, cfgNumber, checkIdx, pc, found, seenTokens,
                   rawTokens, tokenlist, executed, runs, essential, returned, ifStack,
                   frames, visited>>

\* the loop of misra_16_3 is over
Misra_16_3_Return ==
    /\ pc = "misra_16_3"
    /\ token > Len(rawTokens)
    /\ pc' = "done"
    /\ UNCHANGED <<regVars, verify, ruleTexts, suppressionStats, verify_expected,
                   verify_actual, violations, typeBits, reported, printed, exitCode,
                   dumpfiles, data, cfgNumber, checkIdx, found, seenTokens, ruleVars>>

NextFall ==
    \/ Misra_16_3_Token
    \/ Misra_16_3_Return

SpecFall == InitFall /\ [][NextFall]_vars

\* ---------------------------------------------------------------------
\* Claims about the rule 16.3 scanner (SpecFall)
\* ---------------------------------------------------------------------

\* misra_16_3 has gone through all of rawTokens
ScanDone == pc = "done"

\* the token object of 'case 2' in rawTokens (0 when there is none)
CaseTwo ==
    LET at == {i \in 1..(Len(rawTokens) - 1) :
                  rawTokens[i].str = kw_case /\ rawTokens[i + 1].str = <<"2">>}
    IN  IF at = {} THEN 0 ELSE CHOOSE i \in at : TRUE

\* rule 16.3 is reported at token object t
ReportedAt(t) == \E i \in 1..Len(errors) : errors[i].token = t

\* the tokens before token object t end with a statement of keyword kw:
\* the keyword, at most one operand, and ';'
StatementBefore(t, kw) ==
    /\ t > 2
    /\ rawTokens[t - 1].str = <<";">>
    /\ \/ rawTokens[t - 2].str = kw
       \/ t > 3 /\ rawTokens[t - 3].str = kw /\ rawTokens[t - 2].str = <<"x">>

\* the token before token object t is a comment that mentions fallthrough
\* in any letter case, or the tokens before it are [ [ fallthrough ] ] ;
MarkerBefore(t) ==
    \/ /\ t > 1
       /\ FirstTwo(rawTokens[t - 1].str) \in {<<"/", "/">>, <<"/", "*">>}
       /\ Contains(lower(rawTokens[t - 1].str), kw_fallthrough)
    \/ /\ t > 6
       /\ [i \in 1..6 |-> rawTokens[t - 7 + i].str]
              = <<<<"[">>, <<"[">>, kw_fallthrough, <<"]">>, <<"]">>, <<";">>>>

\* C6: in switch ( x ) { case 1 : S case 2 : ... } no violation is reported
\* at case 2 when S is immediately followed by break ;, and a violation is
\* reported at case 2 when S is followed by none of break, return, throw or
\* a fallthrough marker.
C6_FallthroughReported ==
    (ScanDone /\ CaseTwo # 0) =>
        /\ StatementBefore(CaseTwo, kw_break) => ~ReportedAt(CaseTwo)
        /\ ( /\ ~StatementBefore(CaseTwo, kw_break)
             /\ ~StatementBefore(CaseTwo, kw_return)
             /\ ~StatementBefore(CaseTwo, kw_throw)
             /\ ~MarkerBefore(CaseTwo) ) => ReportedAt(CaseTwo)


\* ---------------------------------------------------------------------
\* Rules 10.6 and 12.1: getEssentialType, isCast, getPrecedence,
\* numberOfParentheses, misra_10_6 and misra_12_1 over data.tokenlist.
\* A token of the list is a record of the fields these functions read; a
\* token object is the index of the token in the list, 0 is no token, and
\* token.next is the following index.
\* ---------------------------------------------------------------------

kw_char == <<"c","h","a","r">>

kw_short == <<"s","h","o","r","t">>

kw_int == <<"i","n","t">>

kw_long == <<"l","o","n","g">>

kw_float == <<"f","l","o","a","t">>

kw_double == <<"d","o","u","b","l","e">>

kw_bool == <<"b","o","o","l">>

kw_unsigned == <<"u","n","s","i","g","n","e","d">>

kw_signed == <<"s","i","g","n","e","d">>

\* 'long long'
kw_long_long == kw_long \o <<" ">> \o kw_long

\* list.index(x): the 0-based position of x in the list; None stands for
\* the ValueError of an absent x
IndexOf(list, x) ==
    IF InList(x, list)
    THEN Some((CHOOSE i \in 1..Len(list) :
                  list[i] = x /\ \A j \in 1..(i - 1) : list[j] # x) - 1)
    ELSE None

\* the loop of getEssentialType over the tokens of a declaration, with the
\* first word of the declaration taken whatever it is
TypeOfDeclaration_FirstWord(tokens, typeToken) ==
    IF typeToken = 0 \/ ~tokens[typeToken].isName THEN None
    ELSE Some(tokens[typeToken].str)

\* the loop of getEssentialType over the tokens of a declaration
RECURSIVE TypeOfDeclaration(_, _)
TypeOfDeclaration(tokens, typeToken) ==
    IF typeToken = 0 \/ ~tokens[typeToken].isName THEN None
    ELSE IF InList(tokens[typeToken].str,
                   <<kw_char, kw_short, kw_int, kw_long, kw_float, kw_double>>)
         THEN Some(tokens[typeToken].str)
    ELSE TypeOfDeclaration(tokens, NextOf(tokens, typeToken))

\* the operators getEssentialType and misra_10_6 take for composite
CompositeOperators ==
    <<<<"+">>, <<"-">>, <<"*">>, <<"/">>, <<"%">>, <<"&">>, <<"|">>, <<"^">>,
      <<">", ">">>, <<"<", "<">>, <<"?">>, <<":">>>>

\* valueType.pointer > 0 of a token that has a valueType
IsPointer(tokens, t) ==
    tokens[t].valueType # None /\ tokens[t].valueType[1].pointer > 0

\* getEssentialType with the type of the second operand for every composite
\* expression
RECURSIVE getEssentialType_Second(_, _)
getEssentialType_Second(tokens, expr) ==
    IF expr = 0 THEN None
    ELSE LET tok == tokens[expr]
         IN  IF tok.variable # None
             THEN TypeOfDeclaration(tokens, tok.variable[1].typeStartToken)
             ELSE IF tok.astOperand1 # 0 /\ tok.astOperand2 # 0
                     /\ InList(tok.str, CompositeOperators)
             THEN IF IsPointer(tokens, tok.astOperand1) \/ IsPointer(tokens, tok.astOperand2)
                  THEN None
                  ELSE LET e1 == getEssentialType_Second(tokens, tok.astOperand1)
                           e2 == getEssentialType_Second(tokens, tok.astOperand2)
                           types == <<kw_bool, kw_char, kw_short, kw_int, kw_long, kw_long_long>>
                       IN  IF e1 = None \/ e2 = None THEN None
                           ELSE LET i1 == IndexOf(types, e1[1])
                                    i2 == IndexOf(types, e2[1])
                                IN  IF i1 = None \/ i2 = None THEN None
                                    ELSE IF i2[1] >= 0 THEN Some(types[i2[1] + 1])
                                    ELSE Some(types[i1[1] + 1])
             ELSE IF tok.str = <<"~">> THEN getEssentialType_Second(tokens, tok.astOperand1)
             ELSE None

\* getEssentialType(expr): Some(type name) or None
RECURSIVE getEssentialType(_, _)
getEssentialType(tokens, expr) ==
    IF expr = 0 THEN None
    ELSE LET tok == tokens[expr]
         IN  IF tok.variable # None
             THEN TypeOfDeclaration(tokens, tok.variable[1].typeStartToken)
             ELSE IF tok.astOperand1 # 0 /\ tok.astOperand2 # 0
                     /\ InList(tok.str, CompositeOperators)
             THEN IF IsPointer(tokens, tok.astOperand1) \/ IsPointer(tokens, tok.astOperand2)
                  THEN None
                  ELSE LET e1 == getEssentialType(tokens, tok.astOperand1)
                           e2 == getEssentialType(tokens, tok.astOperand2)
                           types == <<kw_bool, kw_char, kw_short, kw_int, kw_long, kw_long_long>>
                       IN  IF e1 = None \/ e2 = None THEN None
                           ELSE LET i1 == IndexOf(types, e1[1])
                                    i2 == IndexOf(types, e2[1])
                                IN  IF i1 = None \/ i2 = None THEN None
                                    ELSE IF i2[1] >= i1[1] THEN Some(types[i2[1] + 1])
                                    ELSE Some(types[i1[1] + 1])
             ELSE IF tok.str = <<"~">> THEN getEssentialType(tokens, tok.astOperand1)
             ELSE None

\* a call of getEssentialType or getEssentialTypeCategory: the function, the
\* token object it was called with (0: None), and what the call returned or
\* the error it raised
EssentialCall(fn, expr, result) == [fn |-> fn, expr |-> expr, result |-> result]

\* the calls of getEssentialType that getEssentialType(expr) makes, itself
\* included, in the order in which they return
RECURSIVE TypeCalls(_, _)
TypeCalls(tokens, expr) ==
    LET self == <<EssentialCall("getEssentialType", expr, getEssentialType(tokens, expr))>>
    IN  IF expr = 0 THEN self
        ELSE LET tok == tokens[expr]
             IN  IF tok.variable # None THEN self
                 ELSE IF tok.astOperand1 # 0 /\ tok.astOperand2 # 0
                         /\ InList(tok.str, CompositeOperators)
                 THEN IF IsPointer(tokens, tok.astOperand1)
                         \/ IsPointer(tokens, tok.astOperand2)
                      THEN self
                      ELSE TypeCalls(tokens, tok.astOperand1)
                               \o TypeCalls(tokens, tok.astOperand2) \o self
                 ELSE IF tok.str = <<"~">> THEN TypeCalls(tokens, tok.astOperand1) \o self
                 ELSE self

\* the calls a check function makes over data.tokenlist, given the calls of
\* the body of its loop at each token: those of the tokens up to token
\* number stop
CallsUpTo(calls, stop) ==
    LET last == IF stop < Len(calls) THEN stop ELSE Len(calls)
        RECURSIVE Between(_, _)
        Between(first, end) ==
            IF first > end THEN <<>>
            ELSE IF first = end THEN calls[first]
            ELSE Between(first, (first + end) \div 2)
                     \o Between((first + end) \div 2 + 1, end)
    IN  Between(1, last)

\* isCast(expr)
isCast(tokens, expr) ==
    IF expr = 0 \/ tokens[expr].str # <<"(">> \/ tokens[expr].astOperand1 = 0
       \/ tokens[expr].astOperand2 # 0
    THEN FALSE
    ELSE ~simpleMatch(tokens, expr, <<"(", " ", ")">>)

\* the body of the loop of misra_10_6 for token object t: reportError is
\* called with the token
misra_10_6_token(tokens, t) ==
    LET tok == tokens[t]
        rhs == tok.astOperand2
        vt1 == tokens[tok.astOperand1].valueType
        vt2 == tokens[rhs].valueType
        intTypes == <<kw_char, kw_short, kw_int, kw_long, kw_long_long>>
    IN  IF tok.str # <<"=">> \/ tok.astOperand1 = 0 \/ rhs = 0 THEN FALSE
        ELSE IF ~InList(tokens[rhs].str, CompositeOperators \o <<<<"~">>>>)
                /\ ~isCast(tokens, rhs)
             THEN FALSE
        ELSE IF vt1 = None \/ vt1[1].pointer > 0 THEN FALSE
        ELSE IF vt2 = None \/ vt2[1].pointer > 0 THEN FALSE
        ELSE LET index1 == IndexOf(intTypes, vt1[1].type)
                 e == IF isCast(tokens, rhs) THEN Some(vt2[1].type)
                      ELSE getEssentialType(tokens, rhs)
             IN  IF index1 = None \/ e = None \/ e = Some(<<>>) THEN FALSE
                 ELSE LET index2 == IndexOf(intTypes, e[1])
                      IN  index2 # None /\ index1[1] > index2[1]

\* the body of the loop of misra_10_6 for token object t: the token object
\* getEssentialType is called with, 0 when the body does not call it
misra_10_6_operand(tokens, t) ==
    LET tok == tokens[t]
        rhs == tok.astOperand2
        vt1 == tokens[tok.astOperand1].valueType
        vt2 == tokens[rhs].valueType
        intTypes == <<kw_char, kw_short, kw_int, kw_long, kw_long_long>>
    IN  IF tok.str # <<"=">> \/ tok.astOperand1 = 0 \/ rhs = 0 THEN 0
        ELSE IF ~InList(tokens[rhs].str, CompositeOperators \o <<<<"~">>>>)
                /\ ~isCast(tokens, rhs)
             THEN 0
        ELSE IF vt1 = None \/ vt1[1].pointer > 0 THEN 0
        ELSE IF vt2 = None \/ vt2[1].pointer > 0 THEN 0
        ELSE IF IndexOf(intTypes, vt1[1].type) = None \/ isCast(tokens, rhs) THEN 0
        ELSE rhs

\* getPrecedence with the equality operators in the bucket of the relational
\* ones
getPrecedence_EqualityAsRelational(tokens, expr) ==
    IF expr = 0 THEN 16
    ELSE LET tok == tokens[expr]
         IN  IF tok.astOperand1 = 0 \/ tok.astOperand2 = 0 THEN 16
             ELSE IF InList(tok.str, <<<<"*">>, <<"/">>, <<"%">>>>) THEN 12
             ELSE IF InList(tok.str, <<<<"+">>, <<"-">>>>) THEN 11
             ELSE IF InList(tok.str, <<<<"<", "<">>, <<">", ">">>>>) THEN 10
             ELSE IF InList(tok.str, <<<<"<">>, <<">">>, <<"<", "=">>, <<">", "=">>>>) THEN 9
             ELSE IF InList(tok.str, <<<<"=", "=">>, <<"!", "=">>>>) THEN 9
             ELSE IF tok.str = <<"&">> THEN 7
             ELSE IF tok.str = <<"^">> THEN 6
             ELSE IF tok.str = <<"|">> THEN 5
             ELSE IF tok.str = <<"&", "&">> THEN 4
             ELSE IF tok.str = <<"|", "|">> THEN 3
             ELSE IF InList(tok.str, <<<<"?">>, <<":">>>>) THEN 2
             ELSE IF tok.isAssignmentOp THEN 1
             ELSE IF tok.str = <<",">> THEN 0
             ELSE -1

\* getPrecedence(expr)
getPrecedence(tokens, expr) ==
    IF expr = 0 THEN 16
    ELSE LET tok == tokens[expr]
         IN  IF tok.astOperand1 = 0 \/ tok.astOperand2 = 0 THEN 16
             ELSE IF InList(tok.str, <<<<"*">>, <<"/">>, <<"%">>>>) THEN 12
             ELSE IF InList(tok.str, <<<<"+">>, <<"-">>>>) THEN 11
             ELSE IF InList(tok.str, <<<<"<", "<">>, <<">", ">">>>>) THEN 10
             ELSE IF InList(tok.str, <<<<"<">>, <<">">>, <<"<", "=">>, <<">", "=">>>>) THEN 9
             ELSE IF InList(tok.str, <<<<"=", "=">>, <<"!", "=">>>>) THEN 8
             ELSE IF tok.str = <<"&">> THEN 7
             ELSE IF tok.str = <<"^">> THEN 6
             ELSE IF tok.str = <<"|">> THEN 5
             ELSE IF tok.str = <<"&", "&">> THEN 4
             ELSE IF tok.str = <<"|", "|">> THEN 3
             ELSE IF InList(tok.str, <<<<"?">>, <<":">>>>) THEN 2
             ELSE IF tok.isAssignmentOp THEN 1
             ELSE IF tok.str = <<",">> THEN 0
             ELSE -1

\* numberOfParentheses(tok1, tok2): tok2 is reached from tok1 and no
\* parenthesis token is met on the way
RECURSIVE numberOfParentheses(_, _, _)
numberOfParentheses(tokens, tok1, tok2) ==
    IF tok1 # 0 /\ tok1 # tok2
    THEN IF tokens[tok1].str = <<"(">> \/ tokens[tok1].str = <<")">> THEN FALSE
         ELSE numberOfParentheses(tokens, NextOf(tokens, tok1), tok2)
    ELSE tok1 = tok2

\* misra_12_1 with no look at the parentheses between operator and operand
misra_12_1_token_NoParentheses(tokens, t) ==
    LET p == getPrecedence(tokens, t)
        p1 == getPrecedence(tokens, tokens[t].astOperand1)
        p2 == getPrecedence(tokens, tokens[t].astOperand2)
    IN  IF p < 2 \/ p > 12 THEN FALSE
        ELSE IF p < p1 /\ p1 <= 12 THEN TRUE
        ELSE p < p2 /\ p2 <= 12

\* the body of the loop of misra_12_1 for token object t: reportError is
\* called with the token
misra_12_1_token(tokens, t) ==
    LET p == getPrecedence(tokens, t)
        p1 == getPrecedence(tokens, tokens[t].astOperand1)
        p2 == getPrecedence(tokens, tokens[t].astOperand2)
    IN  IF p < 2 \/ p > 12 THEN FALSE
        ELSE IF p < p1 /\ p1 <= 12
                /\ numberOfParentheses(tokens, tokens[t].astOperand1, t)
             THEN TRUE
        ELSE p < p2 /\ p2 <= 12 /\ numberOfParentheses(tokens, t, tokens[t].astOperand2)

\* the texts of the comparison operators (Token.isComparisonOp)
ComparisonTexts ==
    {<<"<">>, <<"<", "=">>, <<"=", "=">>, <<"!", "=">>, <<">", "=">>, <<">">>}

\* the texts of the arithmetical, bit, logical and comparison operators,
\* which with the assignment operators are the tokens with Token.isOp
OperatorTexts ==
    ComparisonTexts
    \cup {<<"+">>, <<"-">>, <<"*">>, <<"/">>, <<"%">>, <<"<", "<">>, <<">", ">">>,
          <<"&">>, <<"|">>, <<"^">>, <<"~">>, <<"&", "&">>, <<"|", "|">>, <<"!">>}

\* a token of data.tokenlist
AstTok(text, isName, op1, op2, isAssignmentOp, variable, valueType) ==
    [str |-> text, isName |-> isName, astOperand1 |-> op1, astOperand2 |-> op2,
     isAssignmentOp |-> isAssignmentOp, variable |-> variable, valueType |-> valueType,
     isOp |-> isAssignmentOp \/ text \in OperatorTexts,
     isComparisonOp |-> text \in ComparisonTexts,
     isNumber |-> text # <<>> /\ InList(text[1], Digits),
     file |-> SourceFile, linenr |-> 1]

\* a token that is neither a name nor a node of the syntax tree
Punct(text) == AstTok(text, FALSE, 0, 0, FALSE, None, None)

\* a keyword of a type
TypeWord(text) == AstTok(text, TRUE, 0, 0, FALSE, None, None)

\* Token.valueType
ValueType(type, sign, pointer) ==
    Some([type |-> type, sign |-> sign, pointer |-> pointer, typeScope |-> None])

\* a declared type: the words of its declaration and its valueType
DeclType(words, type, sign, pointer) ==
    [words |-> words, type |-> type, sign |-> sign, pointer |-> pointer, typeScope |-> None]

T_int == DeclType(<<kw_int>>, kw_int, kw_signed, 0)

T_long == DeclType(<<kw_long>>, kw_long, kw_signed, 0)

\* the declared types of the variables of the sources
DeclTypes ==
    { DeclType(<<kw_char>>, kw_char, kw_signed, 0),
      DeclType(<<kw_short>>, kw_short, kw_signed, 0),
      T_int,
      T_long,
      DeclType(<<kw_long, kw_long>>, kw_long_long, kw_signed, 0),
      DeclType(<<kw_unsigned, kw_int>>, kw_int, kw_unsigned, 0),
      DeclType(<<kw_float>>, kw_float, None, 0),
      DeclType(<<kw_int>>, kw_int, kw_signed, 1) }

VT(T) ==
    Some([type |-> T.type, sign |-> T.sign, pointer |-> T.pointer, typeScope |-> T.typeScope])

\* the tokens of the words of a type
WordsOfType(T) ==
    [i \in 1..Len(T.words) |-> TypeWord(T.words[i])]
        \o (IF T.pointer > 0 THEN <<Punct(<<"*">>)>> ELSE <<>>)

\* the tokens of the declaration 'T name ;' whose first token is at start
Declaration(T, name, start) ==
    WordsOfType(T)
        \o <<AstTok(name, TRUE, 0, 0, FALSE, Some([typeStartToken |-> start]), VT(T)),
             Punct(<<";">>)>>

\* a use of the variable declared at start
Var(T, name, start) ==
    AstTok(name, TRUE, 0, 0, FALSE, Some([typeStartToken |-> start]), VT(T))

\* a binary operator
BinOp(text, op1, op2, vt) == AstTok(text, FALSE, op1, op2, FALSE, None, vt)

\* the '=' of an assignment
Assign(op1, op2, vt) == AstTok(<<"=">>, FALSE, op1, op2, TRUE, None, vt)

\* the valueType of a binary expression after the usual arithmetic
\* conversions: a pointer stays a pointer, anything below int becomes int
ResultVT(T1, T2) ==
    IF T1.pointer > 0 THEN VT(T1)
    ELSE IF T2.pointer > 0 THEN VT(T2)
    ELSE IF kw_float \in {T1.type, T2.type} THEN ValueType(kw_float, None, 0)
    ELSE IF kw_long_long \in {T1.type, T2.type} THEN ValueType(kw_long_long, kw_signed, 0)
    ELSE IF kw_long \in {T1.type, T2.type} THEN ValueType(kw_long, kw_signed, 0)
    ELSE ValueType(kw_int, IF kw_unsigned \in {T1.sign, T2.sign} THEN kw_unsigned ELSE kw_signed, 0)

\* the binary operators of C from the loosest to the tightest binding
CGrammar ==
    << {<<"|", "|">>}, {<<"&", "&">>}, {<<"|">>}, {<<"^">>}, {<<"&">>},
       {<<"=", "=">>, <<"!", "=">>}, {<<"<">>, <<">">>, <<"<", "=">>, <<">", "=">>},
       {<<"<", "<">>, <<">", ">">>}, {<<"+">>, <<"-">>}, {<<"*">>, <<"/">>, <<"%">>} >>

CLevel(op) == CHOOSE l \in 1..Len(CGrammar) : op \in CGrammar[l]

\* the declarations 'Tv v ; Ta a ; Tb b ; Tc c ;'
Declarations(Tv, Ta, Tb, Tc) ==
    LET sv == 1
        sa == sv + Len(Declaration(Tv, <<"v">>, 0))
        sb == sa + Len(Declaration(Ta, <<"a">>, 0))
        sc == sb + Len(Declaration(Tb, <<"b">>, 0))
    IN  [tokens |-> Declaration(Tv, <<"v">>, sv) \o Declaration(Ta, <<"a">>, sa)
                      \o Declaration(Tb, <<"b">>, sb) \o Declaration(Tc, <<"c">>, sc),
         v |-> Var(Tv, <<"v">>, sv), a |-> Var(Ta, <<"a">>, sa),
         b |-> Var(Tb, <<"b">>, sb), c |-> Var(Tc, <<"c">>, sc)]

\* 'v = a op b ;'
SrcBinary(Tv, Ta, Tb, op) ==
    LET d == Declarations(Tv, Ta, Tb, T_int)
        n == Len(d.tokens)
    IN  d.tokens \o
        <<d.v, Assign(n + 1, n + 4, VT(Tv)), d.a, BinOp(op, n + 3, n + 5, ResultVT(Ta, Tb)),
          d.b, Punct(<<";">>)>>

\* 'v = a op1 b op2 c ;' with the syntax tree of the C grammar
SrcChain(op1, op2) ==
    LET d == Declarations(T_int, T_int, T_int, T_int)
        n == Len(d.tokens)
        vt == VT(T_int)
    IN  d.tokens \o
        IF CLevel(op2) > CLevel(op1)
        THEN <<d.v, Assign(n + 1, n + 4, vt), d.a, BinOp(op1, n + 3, n + 6, vt),
               d.b, BinOp(op2, n + 5, n + 7, vt), d.c, Punct(<<";">>)>>
        ELSE <<d.v, Assign(n + 1, n + 6, vt), d.a, BinOp(op1, n + 3, n + 5, vt),
               d.b, BinOp(op2, n + 4, n + 7, vt), d.c, Punct(<<";">>)>>

\* 'v = ( a op1 b ) op2 c ;'
SrcLeftParen(op1, op2) ==
    LET d == Declarations(T_int, T_int, T_int, T_int)
        n == Len(d.tokens)
        vt == VT(T_int)
    IN  d.tokens \o
        <<d.v, Assign(n + 1, n + 8, vt), Punct(<<"(">>), d.a, BinOp(op1, n + 4, n + 6, vt),
          d.b, Punct(<<")">>), BinOp(op2, n + 5, n + 9, vt), d.c, Punct(<<";">>)>>

\* 'v = a op1 ( b op2 c ) ;'
SrcRightParen(op1, op2) ==
    LET d == Declarations(T_int, T_int, T_int, T_int)
        n == Len(d.tokens)
        vt == VT(T_int)
    IN  d.tokens \o
        <<d.v, Assign(n + 1, n + 4, vt), d.a, BinOp(op1, n + 3, n + 7, vt), Punct(<<"(">>),
          d.b, BinOp(op2, n + 6, n + 8, vt), d.c, Punct(<<")">>), Punct(<<";">>)>>

\* 'v = ~ a ;'
SrcComplement(Tv, Ta) ==
    LET d == Declarations(Tv, Ta, T_int, T_int)
        n == Len(d.tokens)
    IN  d.tokens \o
        <<d.v, Assign(n + 1, n + 3, VT(Tv)),
          AstTok(<<"~">>, FALSE, n + 4, 0, FALSE, None, ResultVT(Ta, Ta)), d.a, Punct(<<";">>)>>

\* 'v = ( T ) a ;'
SrcCast(Tv, T, Ta) ==
    LET d == Declarations(Tv, Ta, T_int, T_int)
        n == Len(d.tokens)
        w == WordsOfType(T)
    IN  d.tokens \o
        <<d.v, Assign(n + 1, n + 3, VT(Tv)),
          AstTok(<<"(">>, FALSE, n + 3 + Len(w) + 2, 0, FALSE, None, VT(T))>>
        \o w \o <<Punct(<<")">>), d.a, Punct(<<";">>)>>

\* 'v = a ;'
SrcCopy(Tv, Ta) ==
    LET d == Declarations(Tv, Ta, T_int, T_int)
        n == Len(d.tokens)
    IN  d.tokens \o <<d.v, Assign(n + 1, n + 3, VT(Tv)), d.a, Punct(<<";">>)>>

\* 'v = f ( ) ;'
SrcCall(Tv) ==
    LET d == Declarations(Tv, T_int, T_int, T_int)
        n == Len(d.tokens)
    IN  d.tokens \o
        <<d.v, Assign(n + 1, n + 4, VT(Tv)), AstTok(<<"f">>, TRUE, 0, 0, FALSE, None, None),
          AstTok(<<"(">>, FALSE, n + 3, 0, FALSE, None, VT(T_int)), Punct(<<")">>),
          Punct(<<";">>)>>

\* the operators of the sources with declared types
TypedOperators == {<<"+">>, <<"*">>, <<"<", "<">>, <<"&">>, <<"<">>}

\* the operators of the sources with two operators
ChainOperators ==
    {<<"*">>, <<"/">>, <<"+">>, <<"-">>, <<"<", "<">>, <<"<">>, <<"=", "=">>,
     <<"&">>, <<"^">>, <<"|">>, <<"&", "&">>, <<"|", "|">>}

\* the token lists given to the rules
ExprSources ==
    {SrcBinary(Tv, Ta, Tb, op) : Tv \in DeclTypes, Ta \in DeclTypes, Tb \in DeclTypes,
                                  op \in TypedOperators}
    \cup {SrcChain(op1, op2) : op1 \in ChainOperators, op2 \in ChainOperators}
    \cup {SrcLeftParen(op1, op2) : op1 \in ChainOperators, op2 \in ChainOperators}
    \cup {SrcRightParen(op1, op2) : op1 \in ChainOperators, op2 \in ChainOperators}
    \cup {SrcComplement(Tv, Ta) : Tv \in DeclTypes, Ta \in DeclTypes}
    \cup {SrcCast(Tv, T, Ta) : Tv \in DeclTypes, T \in DeclTypes, Ta \in {T_int, T_long}}
    \cup {SrcCopy(Tv, Ta) : Tv \in DeclTypes, Ta \in DeclTypes}
    \cup {SrcCall(Tv) : Tv \in DeclTypes}

\* the reportError calls of a rule whose loop body reports token t when
\* hit[t]
ErrorsOf(hit, num1, num2) ==
    LET Hit(call) == hit[call.token]
    IN  SelectSeq([t \in 1..Len(hit) |-> [token |-> t, num1 |-> num1, num2 |-> num2]], Hit)

\* parseDump is about to run the rules on data.tokenlist
InitExpr ==
    /\ InitInDump({1006, 1201})
    /\ pc = "misra_10_6"
    /\ tokenlist \in ExprSources
    /\ data = [tokenlist |-> tokenlist, rawTokens |-> <<>>]
    /\ rawTokens = <<>>
    /\ token = 0
    /\ state = STATE_NONE
    /\ end_swtich_token = None
    /\ executed = <<>>
    /\ runs = <<>>
    /\ essential = <<>>
    /\ returned = <<>>
    /\ ifStack = <<>>
    /\ frames = <<>>
    /\ visited = {}
    /\ errors = <<>>

\* misra_10_6(data), with the calls of getEssentialType it makes; parseDump
\* goes on to misra_10_8 unless rule 10.8 is globally suppressed, and then
\* (rules 11.3 to 11.9 are) to misra_12_1
Misra_10_6 ==
    /\ pc = "misra_10_6"
    /\ LET calls == ErrorsOf([t \in 1..Len(tokenlist) |-> misra_10_6_token(tokenlist, t)],
                             10, 6)
       IN  Reporting(calls, [i \in 1..Len(calls) |-> tokenlist[calls[i].token]])
    /\ essential' = essential
           \o CallsUpTo([t \in 1..Len(tokenlist) |->
                            IF misra_10_6_operand(tokenlist, t) = 0 THEN <<>>
                            ELSE TypeCalls(tokenlist, misra_10_6_operand(tokenlist, t))],
                        Len(tokenlist))
    /\ pc' = IF isRuleGloballySuppressed(suppressedRules, 1008) THEN "misra_12_1"
             ELSE "misra_10_8"
    /\ UNCHANGED <<regVars, verify, ruleTexts, verify_expected, typeBits, printed,
                   exitCode, dumpfiles, data, cfgNumber, checkIdx, found, seenTokens,
                   rawTokens, token, state, end_swtich_token, tokenlist, executed,
                   runs, returned, ifStack, frames, visited>>

\* misra_12_1(data)
Misra_12_1 ==
    /\ pc = "misra_12_1"
    /\ LET calls == ErrorsOf([t \in 1..Len(tokenlist) |-> misra_12_1_token(tokenlist, t)],
                             12, 1)
       IN  Reporting(calls, [i \in 1..Len(calls) |-> tokenlist[calls[i].token]])
    /\ pc' = "done"
    /\ UNCHANGED <<regVars, verify, ruleTexts, verify_expected, typeBits, printed,
                   exitCode, dumpfiles, data, cfgNumber, checkIdx, found, seenTokens,
                   rawTokens, token, state, end_swtich_token, tokenlist, executed,
                   runs, essential, returned, ifStack, frames, visited>>

NextExpr ==
    \/ Misra_10_6
    \/ Misra_12_1

SpecExpr == InitExpr /\ [][NextExpr]_vars

\* ---------------------------------------------------------------------
\* Claims about rules 10.6 and 12.1 (SpecExpr)
\* ---------------------------------------------------------------------

\* misra_10_6 has returned
Ran_10_6 == pc \in {"misra_12_1", "done"}

\* misra_12_1 has returned
Ran_12_1 == pc = "done"

\* reportError was called with token object t for rule num1.num2
FlaggedAt(t, num1, num2) ==
    \E i \in 1..Len(errors) :
        errors[i].token = t /\ errors[i].num1 = num1 /\ errors[i].num2 = num2

\* the '=' of the statement of tokenlist
AssignToken == CHOOSE t \in 1..Len(tokenlist) : tokenlist[t].str = <<"=">>

\* token object t is a variable whose declaration reads 'words name ;'
DeclaredAs(t, words) ==
    /\ t # 0
    /\ tokenlist[t].variable # None
    /\ LET start == tokenlist[t].variable[1].typeStartToken
       IN  /\ [i \in 1..Len(words) |-> tokenlist[start + i - 1].str] = words
           /\ tokenlist[start + Len(words)].str = tokenlist[t].str

\* token object t is a composite expression whose operands are variables
\* declared with the words
CompositeOf(t, words) ==
    /\ t # 0
    /\ \/ /\ tokenlist[t].str \in {<<"+">>, <<"*">>, <<"&">>}
          /\ DeclaredAs(tokenlist[t].astOperand1, words)
          /\ DeclaredAs(tokenlist[t].astOperand2, words)
       \/ /\ tokenlist[t].str = <<"~">>
          /\ DeclaredAs(tokenlist[t].astOperand1, words)

\* the statement of tokenlist assigns a composite expression of operands
\* declared 'from' to a variable declared 'to'
AssignsComposite(from, to) ==
    /\ DeclaredAs(tokenlist[AssignToken].astOperand1, to)
    /\ CompositeOf(tokenlist[AssignToken].astOperand2, from)

\* C7 as claimed: rule 10.6 does not fire when a composite expression of
\* essential rank int is assigned to a variable declared long, and fires when
\* one of essential rank long is assigned to a variable declared int.
C7_FiresOnNarrowing ==
    Ran_10_6 =>
        /\ AssignsComposite(<<kw_int>>, <<kw_long>>) => ~FlaggedAt(AssignToken, 10, 6)
        /\ AssignsComposite(<<kw_long>>, <<kw_int>>) => FlaggedAt(AssignToken, 10, 6)

\* what misra_10_6 does: it reports the assignment of a composite expression
\* of int operands to a variable declared long, and does not report the
\* assignment of a composite expression of long operands to a variable
\* declared int
ReportsWidening_10_6 ==
    Ran_10_6 =>
        /\ AssignsComposite(<<kw_int>>, <<kw_long>>) => FlaggedAt(AssignToken, 10, 6)
        /\ AssignsComposite(<<kw_long>>, <<kw_int>>) => ~FlaggedAt(AssignToken, 10, 6)

\* token object t is a binary operator of the C grammar
IsBinaryOperator(t) ==
    /\ t # 0
    /\ tokenlist[t].astOperand1 # 0
    /\ tokenlist[t].astOperand2 # 0
    /\ \E l \in 1..Len(CGrammar) : tokenlist[t].str \in CGrammar[l]

\* a parenthesis token lies between token objects t and u
ParenthesisBetween(t, u) ==
    \E k \in 1..Len(tokenlist) :
        /\ (t < k /\ k < u) \/ (u < k /\ k < t)
        /\ tokenlist[k].str \in {<<"(">>, <<")">>}

\* token object t is a binary operator with an operand that is a binary
\* operator of higher precedence and that no parenthesis separates from it
HasBareTighterOperand(t) ==
    /\ IsBinaryOperator(t)
    /\ \E o \in {tokenlist[t].astOperand1, tokenlist[t].astOperand2} :
           /\ IsBinaryOperator(o)
           /\ CLevel(tokenlist[o].str) > CLevel(tokenlist[t].str)
           /\ ~ParenthesisBetween(t, o)

\* rule 12.1 is reported somewhere in tokenlist
Flagged_12_1 == \E t \in 1..Len(tokenlist) : FlaggedAt(t, 12, 1)

\* rule 12.1 is reported only at operators with a bare operand of higher
\* precedence
OnlyBareTighterOperands ==
    \A t \in 1..Len(tokenlist) : FlaggedAt(t, 12, 1) => HasBareTighterOperand(t)

\* C8 as claimed: rule 12.1 does not flag a + b * c, does not flag
\* (a + b) * c, flags a << b + c, and flags an operator only when an operand
\* of higher precedence is not separated from it by a parenthesis.
C8_SumOfProductNotFlagged ==
    Ran_12_1 =>
        /\ tokenlist = SrcChain(<<"+">>, <<"*">>) => ~Flagged_12_1
        /\ tokenlist = SrcLeftParen(<<"+">>, <<"*">>) => ~Flagged_12_1
        /\ tokenlist = SrcChain(<<"<", "<">>, <<"+">>) => Flagged_12_1
        /\ OnlyBareTighterOperands

\* C8: rule 12.1 flags a + b * c, does not flag (a + b) * c, flags
\* a << b + c, and flags an operator only when an operand of higher
\* precedence is not separated from it by a parenthesis.
C8_SumOfProductFlagged ==
    Ran_12_1 =>
        /\ tokenlist = SrcChain(<<"+">>, <<"*">>) => Flagged_12_1
        /\ tokenlist = SrcLeftParen(<<"+">>, <<"*">>) => ~Flagged_12_1
        /\ tokenlist = SrcChain(<<"<", "<">>, <<"+">>) => Flagged_12_1
        /\ OnlyBareTighterOperands

\* misra_12_1 has flagged the '+' of a + b * c
C8_Witness ==
    /\ Ran_12_1
    /\ tokenlist = SrcChain(<<"+">>, <<"*">>)
    /\ \E t \in 1..Len(tokenlist) : tokenlist[t].str = <<"+">> /\ FlaggedAt(t, 12, 1)

\* ---------------------------------------------------------------------
\* The schedule of parseDump: every self.executeCheck(...) line of the loop
\* over the configurations.  raw marks the lines under "if cfgNumber == 1:",
\* whose check function is given data.rawTokens.
\* ---------------------------------------------------------------------

Schedule ==
    << [rule_num |-> 207, fn |-> "misra_2_7", raw |-> FALSE],
       [rule_num |-> 301, fn |-> "misra_3_1", raw |-> TRUE],
       [rule_num |-> 302, fn |-> "misra_3_2", raw |-> TRUE],
       [rule_num |-> 401, fn |-> "misra_4_1", raw |-> TRUE],
       [rule_num |-> 402, fn |-> "misra_4_2", raw |-> TRUE],
       [rule_num |-> 501, fn |-> "misra_5_1", raw |-> FALSE],
       [rule_num |-> 502, fn |-> "misra_5_2", raw |-> FALSE],
       [rule_num |-> 503, fn |-> "misra_5_3", raw |-> FALSE],
       [rule_num |-> 504, fn |-> "misra_5_4", raw |-> FALSE],
       [rule_num |-> 505, fn |-> "misra_5_5", raw |-> FALSE],
       [rule_num |-> 701, fn |-> "misra_7_1", raw |-> TRUE],
       [rule_num |-> 703, fn |-> "misra_7_3", raw |-> TRUE],
       [rule_num |-> 811, fn |-> "misra_8_11", raw |-> FALSE],
       [rule_num |-> 812, fn |-> "misra_8_12", raw |-> FALSE],
       [rule_num |-> 814, fn |-> "misra_8_14", raw |-> TRUE],
       [rule_num |-> 905, fn |-> "misra_9_5", raw |-> TRUE],
       [rule_num |-> 1001, fn |-> "misra_10_1", raw |-> FALSE],
       [rule_num |-> 1004, fn |-> "misra_10_4", raw |-> FALSE],
       [rule_num |-> 1006, fn |-> "misra_10_6", raw |-> FALSE],
       [rule_num |-> 1008, fn |-> "misra_10_8", raw |-> FALSE],
       [rule_num |-> 1103, fn |-> "misra_11_3", raw |-> FALSE],
       [rule_num |-> 1104, fn |-> "misra_11_4", raw |-> FALSE],
       [rule_num |-> 1105, fn |-> "misra_11_5", raw |-> FALSE],
       [rule_num |-> 1106, fn |-> "misra_11_6", raw |-> FALSE],
       [rule_num |-> 1107, fn |-> "misra_11_7", raw |-> FALSE],
       [rule_num |-> 1108, fn |-> "misra_11_8", raw |-> FALSE],
       [rule_num |-> 1109, fn |-> "misra_11_9", raw |-> FALSE],
       [rule_num |-> 1201, fn |-> "misra_12_1_sizeof", raw |-> TRUE],
       [rule_num |-> 1201, fn |-> "misra_12_1", raw |-> FALSE],
       [rule_num |-> 1202, fn |-> "misra_12_2", raw |-> FALSE],
       [rule_num |-> 1203, fn |-> "misra_12_3", raw |-> FALSE],
       [rule_num |-> 1204, fn |-> "misra_12_4", raw |-> FALSE],
       [rule_num |-> 1301, fn |-> "misra_13_1", raw |-> FALSE],
       [rule_num |-> 1303, fn |-> "misra_13_3", raw |-> FALSE],
       [rule_num |-> 1304, fn |-> "misra_13_4", raw |-> FALSE],
       [rule_num |-> 1305, fn |-> "misra_13_5", raw |-> FALSE],
       [rule_num |-> 1306, fn |-> "misra_13_6", raw |-> FALSE],
       [rule_num |-> 1401, fn |-> "misra_14_1", raw |-> FALSE],
       [rule_num |-> 1402, fn |-> "misra_14_2", raw |-> FALSE],
       [rule_num |-> 1404, fn |-> "misra_14_4", raw |-> FALSE],
       [rule_num |-> 1501, fn |-> "misra_15_1", raw |-> FALSE],
       [rule_num |-> 1502, fn |-> "misra_15_2", raw |-> FALSE],
       [rule_num |-> 1503, fn |-> "misra_15_3", raw |-> FALSE],
       [rule_num |-> 1505, fn |-> "misra_15_5", raw |-> FALSE],
       [rule_num |-> 1506, fn |-> "misra_15_6", raw |-> TRUE],
       [rule_num |-> 1507, fn |-> "misra_15_7", raw |-> FALSE],
       [rule_num |-> 1602, fn |-> "misra_16_2", raw |-> FALSE],
       [rule_num |-> 1603, fn |-> "misra_16_3", raw |-> TRUE],
       [rule_num |-> 1604, fn |-> "misra_16_4", raw |-> FALSE],
       [rule_num |-> 1605, fn |-> "misra_16_5", raw |-> FALSE],
       [rule_num |-> 1606, fn |-> "misra_16_6", raw |-> FALSE],
       [rule_num |-> 1607, fn |-> "misra_16_7", raw |-> FALSE],
       [rule_num |-> 1701, fn |-> "misra_17_1", raw |-> FALSE],
       [rule_num |-> 1702, fn |-> "misra_17_2", raw |-> FALSE],
       [rule_num |-> 1706, fn |-> "misra_17_6", raw |-> TRUE],
       [rule_num |-> 1707, fn |-> "misra_17_7", raw |-> FALSE],
       [rule_num |-> 1708, fn |-> "misra_17_8", raw |-> FALSE],
       [rule_num |-> 1804, fn |-> "misra_18_4", raw |-> FALSE],
       [rule_num |-> 1805, fn |-> "misra_18_5", raw |-> FALSE],
       [rule_num |-> 1807, fn |-> "misra_18_7", raw |-> FALSE],
       [rule_num |-> 1808, fn |-> "misra_18_8", raw |-> FALSE],
       [rule_num |-> 1902, fn |-> "misra_19_2", raw |-> FALSE],
       [rule_num |-> 2001, fn |-> "misra_20_1", raw |-> FALSE],
       [rule_num |-> 2002, fn |-> "misra_20_2", raw |-> FALSE],
       [rule_num |-> 2003, fn |-> "misra_20_3", raw |-> TRUE],
       [rule_num |-> 2004, fn |-> "misra_20_4", raw |-> FALSE],
       [rule_num |-> 2005, fn |-> "misra_20_5", raw |-> FALSE],
       [rule_num |-> 2006, fn |-> "misra_20_7", raw |-> FALSE],
       [rule_num |-> 2010, fn |-> "misra_20_10", raw |-> FALSE],
       [rule_num |-> 2013, fn |-> "misra_20_13", raw |-> FALSE],
       [rule_num |-> 2014, fn |-> "misra_20_14", raw |-> FALSE],
       [rule_num |-> 2101, fn |-> "misra_21_1", raw |-> FALSE],
       [rule_num |-> 2103, fn |-> "misra_21_3", raw |-> FALSE],
       [rule_num |-> 2104, fn |-> "misra_21_4", raw |-> FALSE],
       [rule_num |-> 2105, fn |-> "misra_21_5", raw |-> FALSE],
       [rule_num |-> 2106, fn |-> "misra_21_6", raw |-> FALSE],
       [rule_num |-> 2107, fn |-> "misra_21_7", raw |-> FALSE],
       [rule_num |-> 2108, fn |-> "misra_21_8", raw |-> FALSE],
       [rule_num |-> 2109, fn |-> "misra_21_9", raw |-> FALSE],
       [rule_num |-> 2110, fn |-> "misra_21_10", raw |-> FALSE],
       [rule_num |-> 2111, fn |-> "misra_21_11", raw |-> FALSE],
       [rule_num |-> 2112, fn |-> "misra_21_12", raw |-> FALSE] >>

\* the check functions of the schedule
ScheduleFns == {Schedule[i].fn : i \in 1..Len(Schedule)}

\* the line of the schedule is reached in configuration number cfgNum with
\* the guard on cfgNumber not in force
Dispatched_EveryCfg(entry, cfgNum) == TRUE

\* the line of the schedule is reached in configuration number cfgNum: a
\* line under "if cfgNumber == 1:" in the first configuration only
Dispatched(entry, cfgNum) == ~entry.raw \/ cfgNum = 1

\* --suppress-rules of the runs of the schedule, and suppressions of a dump
\* for a file
SchedSuppressions ==
    { <<>>,
      << Call(1603, None, None, None) >>,
      << Call(1501, None, None, None), Call(301, None, None, None) >>,
      << Call(2006, None, None, None) >>,
      << Call(2007, None, None, None) >>,
      << Call(1603, Some(<<"a">>), None, None), Call(1501, Some(<<"a">>), Some(1), None) >> }

\* the checker is constructed and no check function has been called
InitSched ==
    /\ InitChecker
    /\ verify \in BOOLEAN
    /\ dumpfiles = <<>>
    /\ pc = "suppressions"
    /\ rawTokens = <<>>
    /\ token = 0
    /\ state = STATE_NONE
    /\ end_swtich_token = None
    /\ tokenlist = <<>>
    /\ executed = [fn \in ScheduleFns |-> 0]
    /\ runs = <<>>
    /\ essential = <<>>
    /\ returned = <<>>
    /\ ifStack = <<>>
    /\ frames = <<>>
    /\ visited = {}
    /\ errors = <<>>

\* the suppressions in force when the loop over the configurations starts:
\* those of --suppress-rules and those parseDump adds from the dump
SchedAddSuppressions(calls) ==
    /\ pc = "suppressions"
    /\ suppressedRules' = AddAll(suppressedRules, calls)
    /\ added' = added \o calls
    /\ pc' = "dump"
    /\ UNCHANGED <<filePrefix, verify, ruleTexts, suppressionStats, verify_expected,
                   verify_actual, violations, typeBits, reported, printed, exitCode,
                   dumpfiles, data, cfgNumber, checkIdx, found, seenTokens, ruleVars>>

\* parseDump reads a dump of n configurations and writes the widths of its
\* platform to typeBits
SchedParseDump(n) ==
    /\ pc = "dump"
    /\ data' = [configurations |-> n, platform |-> Platform]
    /\ typeBits' = PlatformBits(typeBits, Platform)
    /\ pc' = "configurations"
    /\ UNCHANGED <<regVars, verify, ruleTexts, suppressionStats, verify_expected,
                   verify_actual, violations, reported, printed, exitCode,
                   dumpfiles, cfgNumber, checkIdx, found, seenTokens, ruleVars>>

\* "for cfg in data.configurations": the next configuration
NextConfiguration ==
    /\ pc = "configurations"
    /\ cfgNumber < data.configurations
    /\ cfgNumber' = cfgNumber + 1
    /\ checkIdx' = 1
    /\ pc' = "schedule"
    /\ UNCHANGED <<regVars, verify, ruleTexts, suppressionStats, verify_expected,
                   verify_actual, violations, typeBits, reported, printed, exitCode,
                   dumpfiles, data, found, seenTokens, ruleVars>>

\* one line of the schedule: executeCheck calls the check function unless
\* the rule number of the line is globally suppressed
ScheduledCheck ==
    /\ pc = "schedule"
    /\ LET entry == Schedule[checkIdx]
       IN  executed' =
               IF Dispatched(entry, cfgNumber)
                  /\ ~isRuleGloballySuppressed(suppressedRules, entry.rule_num)
               THEN [executed EXCEPT ![entry.fn] = @ + 1]
               ELSE executed
    /\ checkIdx' = IF checkIdx < Len(Schedule) THEN checkIdx + 1 ELSE 0
    /\ pc' = IF checkIdx < Len(Schedule) THEN "schedule" ELSE "configurations"
    /\ UNCHANGED <<regVars, verify, ruleTexts, suppressionStats, verify_expected,
                   verify_actual, violations, typeBits, reported, printed, exitCode,
                   dumpfiles, data, cfgNumber, found, seenTokens,
                   rawTokens, token, state, end_swtich_token, tokenlist, runs,
                   essential, returned, ifStack, frames, visited, errors>>

\* the loop over the configurations is over
ParseDumpReturn ==
    /\ pc = "configurations"
    /\ cfgNumber >= data.configurations
    /\ pc' = "done"
    /\ UNCHANGED <<regVars, verify, ruleTexts, suppressionStats, verify_expected,
                   verify_actual, violations, typeBits, reported, printed, exitCode,
                   dumpfiles, data, cfgNumber, checkIdx, found, seenTokens, ruleVars>>

NextSched ==
    \/ \E calls \in SchedSuppressions : SchedAddSuppressions(calls)
    \/ \E n \in 0..MaxCfg : SchedParseDump(n)
    \/ NextConfiguration
    \/ ScheduledCheck
    \/ ParseDumpReturn

SpecSched == InitSched /\ [][NextSched]_vars

\* ---------------------------------------------------------------------
\* Claims about the schedule (SpecSched)
\* ---------------------------------------------------------------------

\* the check functions the claim lists as raw-token rules
RawTokenRules ==
    {"misra_3_1", "misra_3_2", "misra_4_1", "misra_4_2", "misra_7_1", "misra_7_3",
     "misra_8_14", "misra_9_5", "misra_12_1_sizeof", "misra_15_6", "misra_16_3",
     "misra_17_6", "misra_20_3"}

\* the check function is called once if it is a raw-token rule, and once per
\* configuration otherwise
CalledAsScheduled(fn) ==
    executed[fn] = IF fn \in RawTokenRules THEN 1 ELSE data.configurations

\* the rule number a check function is scheduled with
RuleNumOf(fn) == Schedule[CHOOSE i \in 1..Len(Schedule) : Schedule[i].fn = fn].rule_num

\* C11 as claimed: in one parseDump every raw-token rule is executed exactly
\* once whatever the number of configurations, and every other rule exactly
\* once per configuration.
C11_OncePerUnit ==
    pc = "done" => \A fn \in ScheduleFns : CalledAsScheduled(fn)

\* C11: in one parseDump of a dump with at least one configuration, every
\* raw-token rule whose rule number is not globally suppressed is executed
\* exactly once, and every other rule whose rule number is not globally
\* suppressed exactly once per configuration; a rule whose rule number is
\* globally suppressed is not executed at all, whatever the number of
\* configurations.
C11_OncePerUnitUnlessSuppressed ==
    /\ (pc = "done" /\ data.configurations >= 1) =>
           \A fn \in ScheduleFns :
               ~HoldsGlobalEntry(suppressedRules, RuleNumOf(fn)) => CalledAsScheduled(fn)
    /\ \A fn \in ScheduleFns :
           HoldsGlobalEntry(suppressedRules, RuleNumOf(fn)) => executed[fn] = 0

\* a dump of more than one configuration is done with rules 15.1 and 3.1
\* globally suppressed: the check of 15.1 and the scanner of 3.1 were not
\* called, the scanner of 16.3 was called once and the check of 15.2 once
\* per configuration
C11_Witness ==
    /\ pc = "done"
    /\ data.configurations > 1
    /\ HoldsGlobalEntry(suppressedRules, 1501)
    /\ HoldsGlobalEntry(suppressedRules, 301)
    /\ executed["misra_15_1"] = 0
    /\ executed["misra_3_1"] = 0
    /\ ~HoldsGlobalEntry(suppressedRules, 1603)
    /\ executed["misra_16_3"] = 1
    /\ ~HoldsGlobalEntry(suppressedRules, 1502)
    /\ executed["misra_15_2"] = data.configurations

\* ---------------------------------------------------------------------
\* Claims about repeated runs (Spec)
\* ---------------------------------------------------------------------

\* parseDump number k has returned
RunOver(k) == k < Len(runs) \/ (k = Len(runs) /\ pc \in {"parsed", "dumpfiles", "exit"})

\* the part of the list that was written from parseDump number k on, up to
\* the next parseDump; from is the length of the list when each one started
WrittenIn(list, from, k) ==
    LET last == IF k < Len(runs) THEN from[k + 1] ELSE Len(list)
    IN  [i \in 1..(last - from[k]) |-> list[from[k] + i]]

\* what parseDump number k reported to the sink
ReportedIn(k) == WrittenIn(reported, [i \in 1..Len(runs) |-> runs[i].reported], k)

\* what parseDump number k recorded as actual violations
ActualIn(k) ==
    WrittenIn(verify_actual, [i \in 1..Len(runs) |-> runs[i].verify_actual], k)

\* C12: two parseDump calls of one run of the checker over the same dump,
\* with the same suppression registry and the same rule texts, report the
\* same violations and record the same actual violations, whatever the
\* first of them left in the severity buckets, the hit counters, the verify
\* lists and typeBits.
C12_SecondRunSame ==
    \A i, j \in 1..Len(runs) :
        (/\ i < j
         /\ RunOver(j)
         /\ runs[i].dump = runs[j].dump
         /\ runs[i].suppressedRules = runs[j].suppressedRules)
        => /\ ReportedIn(j) = ReportedIn(i)
           /\ ActualIn(j) = ActualIn(i)

\* the same dump was parsed twice in normal mode with the same registry, and
\* a violation was reported and put in a severity bucket in each
C12_Witness ==
    /\ Len(runs) = 2
    /\ RunOver(2)
    /\ runs[1].dump = runs[2].dump
    /\ runs[1].suppressedRules = runs[2].suppressedRules
    /\ ReportedIn(1) # <<>>
    /\ ReportedIn(2) # <<>>
    /\ DOMAIN violations # {}


\* ---------------------------------------------------------------------
\* Claims about the rule texts (Spec)
\* ---------------------------------------------------------------------

\* the violations reportError was called for that no suppression covers
Unsuppressed == {i \in 1..Len(found) : found[i].ran /\ ~found[i].suppressed}

\* the error id reportError gives the violation
ErrorIdOf(f) == <<"c2012-">> \o str(f.num1) \o <<".">> \o str(f.num2)

\* the violation is in one of the severity buckets
InBucket(f) ==
    \E sev \in DOMAIN violations : InList(<<"misra-">> \o ErrorIdOf(f), violations[sev])

\* C13 as claimed: in normal mode every detected violation that is not
\* suppressed is given to the reporting sink and put in a severity bucket,
\* whether the rule texts are empty, hold a text for its rule or hold texts
\* for other rules only.
C13_TextAbsenceKeepsReports ==
    ~verify =>
        /\ Len(reported) = Cardinality(Unsuppressed)
        /\ \A i \in Unsuppressed :
               /\ \E k \in 1..Len(reported) :
                      /\ reported[k].file = found[i].file
                      /\ reported[k].linenr = found[i].linenr
                      /\ reported[k].errorId = ErrorIdOf(found[i])
               /\ InBucket(found[i])


\* ---------------------------------------------------------------------
\* Rules 12.3, 13.4 and 15.2 on tokens with absent data (SpecAbsent)
\* ---------------------------------------------------------------------

kw_goto == <<"g","o","t","o">>

\* what a check does at one token: nothing, reportError, or an
\* AttributeError for an attribute of None
Outcomes == {"none", "report", "fault"}

\* the body of the loop of misra_12_3 for one token
misra_12_3_token(tokens, t) ==
    LET tok == tokens[t]
    IN  IF tok.str # <<",">> THEN "none"
        ELSE IF tok.scope = None THEN "fault"
        ELSE IF tok.scope[1] \in {"Enum", "Class", "Global"} THEN "none"
        ELSE IF tok.astParent # 0
                /\ tokens[tok.astParent].str \in {<<"(">>, <<",">>, <<"{">>}
        THEN "none"
        ELSE "report"

\* the body of the loop of misra_13_4 for one token
misra_13_4_token(tokens, t) ==
    LET tok == tokens[t]
    IN  IF tok.str # <<"=">> THEN "none"
        ELSE IF tok.astParent = 0 THEN "none"
        ELSE IF tok.astOperand1 = 0 THEN "fault"
        ELSE IF tokens[tok.astOperand1].str = <<"[">>
                /\ PreviousOf(tokens, tok.astOperand1) = 0
        THEN "fault"
        ELSE IF tokens[tok.astOperand1].str = <<"[">>
                /\ tokens[PreviousOf(tokens, tok.astOperand1)].str \in {<<"{">>, <<",">>}
        THEN "none"
        ELSE IF tokens[tok.astParent].str \notin {<<",">>, <<";">>, <<"{">>}
        THEN "report"
        ELSE "none"

\* findGotoLabel(gotoToken): the label token, 0 for None, or a fault
RECURSIVE FindLabel(_, _, _)
FindLabel(tokens, tok, label) ==
    IF tok = 0 THEN [fault |-> FALSE, tok |-> 0]
    ELSE IF tokens[tok].str = <<"}">> /\ tokens[tok].scope = None
    THEN [fault |-> TRUE, tok |-> 0]
    ELSE IF tokens[tok].str = <<"}">> /\ tokens[tok].scope[1] = "Function"
    THEN [fault |-> FALSE, tok |-> 0]
    ELSE IF tokens[tok].str = label /\ NextOf(tokens, tok) = 0
    THEN [fault |-> TRUE, tok |-> 0]
    ELSE IF tokens[tok].str = label /\ tokens[NextOf(tokens, tok)].str = <<":">>
    THEN [fault |-> FALSE, tok |-> tok]
    ELSE FindLabel(tokens, NextOf(tokens, tok), label)

findGotoLabel(tokens, gotoToken) ==
    IF NextOf(tokens, gotoToken) = 0 THEN [fault |-> TRUE, tok |-> 0]
    ELSE FindLabel(tokens, NextOf(tokens, NextOf(tokens, gotoToken)),
                   tokens[NextOf(tokens, gotoToken)].str)

\* the body of the loop of misra_15_2 for one token
misra_15_2_token(tokens, t) ==
    IF tokens[t].str # kw_goto THEN "none"
    ELSE IF NextOf(tokens, t) = 0 \/ ~tokens[NextOf(tokens, t)].isName THEN "none"
    ELSE LET label == findGotoLabel(tokens, t)
         IN  IF label.fault THEN "fault"
             ELSE IF label.tok = 0 THEN "report"
             ELSE "none"

\* a check function over data.tokenlist, given what its loop does at each
\* token: the reports up to the first fault, and whether there was a fault
RunOverTokens(outcome, num1, num2) ==
    LET faults == {t \in 1..Len(outcome) : outcome[t] = "fault"}
        stop == IF faults = {} THEN Len(outcome) + 1
                ELSE CHOOSE t \in faults : \A u \in faults : t <= u
    IN  [errors |-> ErrorsOf([t \in 1..(stop - 1) |-> outcome[t] = "report"], num1, num2),
         fault |-> faults # {}]

\* a token of data.tokenlist with its scope (the type of the scope, or None)
\* and its links in the syntax tree
ScopedTok(text, isName, scope, astParent, astOperand1) ==
    [str |-> text, isName |-> isName, scope |-> scope, astParent |-> astParent,
     astOperand1 |-> astOperand1, file |-> SourceFile, linenr |-> 1]

InFunction(text, isName, astParent, astOperand1) ==
    ScopedTok(text, isName, Some("Function"), astParent, astOperand1)

\* f ( x , y ) ;
SrcCallArguments ==
    << InFunction(<<"f">>, TRUE, 2, 0), InFunction(<<"(">>, FALSE, 0, 1),
       InFunction(<<"x">>, TRUE, 4, 0), InFunction(<<",">>, FALSE, 2, 3),
       InFunction(<<"y">>, TRUE, 4, 0), InFunction(<<")">>, FALSE, 0, 0),
       InFunction(<<";">>, FALSE, 0, 0) >>

\* x , y ;
SrcCommaOperator ==
    << InFunction(<<"x">>, TRUE, 2, 0), InFunction(<<",">>, FALSE, 0, 1),
       InFunction(<<"y">>, TRUE, 2, 0), InFunction(<<";">>, FALSE, 0, 0) >>

\* int a , b ;  at file scope
SrcGlobalDeclaration ==
    << ScopedTok(kw_int, TRUE, Some("Global"), 0, 0),
       ScopedTok(<<"a">>, TRUE, Some("Global"), 0, 0),
       ScopedTok(<<",">>, FALSE, Some("Global"), 0, 0),
       ScopedTok(<<"b">>, TRUE, Some("Global"), 0, 0),
       ScopedTok(<<";">>, FALSE, Some("Global"), 0, 0) >>

\* x = a = b ;
SrcNestedAssignment ==
    << InFunction(<<"x">>, TRUE, 2, 0), InFunction(<<"=">>, FALSE, 0, 1),
       InFunction(<<"a">>, TRUE, 4, 0), InFunction(<<"=">>, FALSE, 2, 3),
       InFunction(<<"b">>, TRUE, 4, 0), InFunction(<<";">>, FALSE, 0, 0) >>

\* { [ 0 ] = 1 }
SrcDesignator ==
    << InFunction(<<"{">>, FALSE, 0, 5), InFunction(<<"[">>, FALSE, 5, 3),
       InFunction(<<"0">>, FALSE, 2, 0), InFunction(<<"]">>, FALSE, 0, 0),
       InFunction(<<"=">>, FALSE, 1, 2), InFunction(<<"1">>, FALSE, 5, 0),
       InFunction(<<"}">>, FALSE, 0, 0) >>

\* { goto L ; x ; L : ; }
SrcGotoForward ==
    << InFunction(<<"{">>, FALSE, 0, 0), InFunction(kw_goto, FALSE, 0, 0),
       InFunction(<<"L">>, TRUE, 0, 0), InFunction(<<";">>, FALSE, 0, 0),
       InFunction(<<"x">>, TRUE, 0, 0), InFunction(<<";">>, FALSE, 0, 0),
       InFunction(<<"L">>, TRUE, 0, 0), InFunction(<<":">>, FALSE, 0, 0),
       InFunction(<<";">>, FALSE, 0, 0), InFunction(<<"}">>, FALSE, 0, 0) >>

\* { L : goto L ; }
SrcGotoBack ==
    << InFunction(<<"{">>, FALSE, 0, 0), InFunction(<<"L">>, TRUE, 0, 0),
       InFunction(<<":">>, FALSE, 0, 0), InFunction(kw_goto, FALSE, 0, 0),
       InFunction(<<"L">>, TRUE, 0, 0), InFunction(<<";">>, FALSE, 0, 0),
       InFunction(<<"}">>, FALSE, 0, 0) >>

CompleteSources ==
    {SrcCallArguments, SrcCommaOperator, SrcGlobalDeclaration, SrcNestedAssignment,
     SrcDesignator, SrcGotoForward, SrcGotoBack}

\* the tokens up to number n, for a model whose later tokens are absent
Truncated(tokens, n) ==
    [t \in 1..n |->
        [tokens[t] EXCEPT !.astParent = IF @ > n THEN 0 ELSE @,
                          !.astOperand1 = IF @ > n THEN 0 ELSE @]]

\* the token lists with one piece of data absent: the scope, the parent or
\* the first operand of one token, or the tokens after one token
PartlyAbsent(tokens) ==
    {[tokens EXCEPT ![t].scope = None] : t \in 1..Len(tokens)}
    \cup {[tokens EXCEPT ![t].astParent = 0] : t \in 1..Len(tokens)}
    \cup {[tokens EXCEPT ![t].astOperand1 = 0] : t \in 1..Len(tokens)}
    \cup {Truncated(tokens, n) : n \in 1..Len(tokens)}

AbsentSources == CompleteSources \cup UNION {PartlyAbsent(src) : src \in CompleteSources}

\* parseDump is about to run the rules on data.tokenlist
InitAbsent ==
    /\ InitInDump({1203, 1304, 1502})
    /\ pc = "misra_12_3"
    /\ tokenlist \in AbsentSources
    /\ data = [tokenlist |-> tokenlist, rawTokens |-> <<>>]
    /\ rawTokens = <<>>
    /\ token = 0
    /\ state = STATE_NONE
    /\ end_swtich_token = None
    /\ executed = <<>>
    /\ runs = <<>>
    /\ essential = <<>>
    /\ returned = <<>>
    /\ ifStack = <<>>
    /\ frames = <<>>
    /\ visited = {}
    /\ errors = <<>>

\* a check function was run with that result: its reports are made, and a
\* fault ends parseDump
AfterCheck(result, next) ==
    /\ Reporting(result.errors,
                 [i \in 1..Len(result.errors) |-> tokenlist[result.errors[i].token]])
    /\ pc' = IF result.fault THEN "fault" ELSE next
    /\ UNCHANGED <<regVars, verify, ruleTexts, verify_expected, typeBits, printed,
                   exitCode, dumpfiles, data, cfgNumber, checkIdx, found, seenTokens,
                   rawTokens, token, state, end_swtich_token, tokenlist, executed,
                   runs, essential, returned, ifStack, frames, visited>>

\* misra_12_3(data)
Misra_12_3 ==
    /\ pc = "misra_12_3"
    /\ LET result == RunOverTokens([t \in 1..Len(tokenlist) |->
                                       misra_12_3_token(tokenlist, t)], 12, 3)
       IN  AfterCheck(result, "misra_13_4")

\* misra_13_4(data)
Misra_13_4 ==
    /\ pc = "misra_13_4"
    /\ LET result == RunOverTokens([t \in 1..Len(tokenlist) |->
                                       misra_13_4_token(tokenlist, t)], 13, 4)
       IN  AfterCheck(result, "misra_15_2")

\* misra_15_2(data)
Misra_15_2 ==
    /\ pc = "misra_15_2"
    /\ LET result == RunOverTokens([t \in 1..Len(tokenlist) |->
                                       misra_15_2_token(tokenlist, t)], 15, 2)
       IN  AfterCheck(result, "done")

NextAbsent ==
    \/ Misra_12_3
    \/ Misra_13_4
    \/ Misra_15_2

SpecAbsent == InitAbsent /\ [][NextAbsent]_vars

\* ---------------------------------------------------------------------
\* Claims about absent data (SpecAbsent)
\* ---------------------------------------------------------------------

\* data of the token that the three checks read is absent: its scope, the
\* parent or the first operand of a ',' or '=', or its next token
HasAbsentData(tokens, t) ==
    \/ tokens[t].scope = None
    \/ tokens[t].str \in {<<",">>, <<"=">>} /\ tokens[t].astParent = 0
    \/ tokens[t].str = <<"=">> /\ tokens[t].astOperand1 = 0
    \/ NextOf(tokens, t) = 0

\* C14 as claimed: the checks raise no fault, and report no violation at a
\* token with absent data.
C14_AbsentDataAbstains ==
    /\ pc # "fault"
    /\ \A i \in 1..Len(errors) : ~HasAbsentData(tokenlist, errors[i].token)


\* ---------------------------------------------------------------------
\* The essential types and categories rules 10.1, 10.4, 10.6 and 10.8 take
\* (SpecType)
\* ---------------------------------------------------------------------

kw_enum == <<"e","n","u","m">>

\* the operators getEssentialTypeCategory gives 'bool'
BoolOperators ==
    {<<"<">>, <<"<", "=">>, <<"=", "=">>, <<"!", "=">>, <<">", "=">>, <<">">>,
     <<"&", "&">>, <<"|", "|">>, <<"!">>}

ShiftOperators == {<<"<", "<">>, <<">", ">">>}

\* len(expr.str) == 1 and expr.str in '+-*/%&|^'
ArithmeticOperators ==
    {<<"+">>, <<"-">>, <<"*">>, <<"/">>, <<"%">>, <<"&">>, <<"|">>, <<"^">>}

\* return valueType.sign, which is None when the type has no sign
SignOf(valueType) == IF valueType[1].sign = None THEN None ELSE Some(valueType[1].sign)

\* the loop of getEssentialTypeCategory over the tokens from the start of
\* the declaration on: Some(category), or None when the tokens run out
RECURSIVE CategoryOfDeclaration(_, _)
CategoryOfDeclaration(tokens, typeToken) ==
    IF typeToken = 0 THEN None
    ELSE LET vt == tokens[typeToken].valueType
         IN  IF vt # None /\ vt[1].type = kw_bool THEN Some(kw_bool)
             ELSE IF vt # None
                     /\ vt[1].type \in {kw_float, kw_double, kw_long \o <<" ">> \o kw_double}
             THEN Some(kw_float)
             ELSE IF vt # None /\ vt[1].sign # None THEN Some(vt[1].sign)
             ELSE CategoryOfDeclaration(tokens, NextOf(tokens, typeToken))

\* what getEssentialTypeCategory ends with when it raises: the TypeError of
\* '"enum<" + None', for a type scope whose className is None
TypeError == <<"raise", "TypeError">>

\* getEssentialTypeCategory(expr): Some(category), None, or TypeError.  An
\* error raised for an operand is raised for the expression.
RECURSIVE getEssentialTypeCategory(_, _)
getEssentialTypeCategory(tokens, expr) ==
    IF expr = 0 THEN None
    ELSE LET tok == tokens[expr]
             e1 == getEssentialTypeCategory(tokens, tok.astOperand1)
             e2 == getEssentialTypeCategory(tokens, tok.astOperand2)
             ofDeclaration ==
                 IF tok.variable # None
                 THEN CategoryOfDeclaration(tokens, tok.variable[1].typeStartToken)
                 ELSE None
             rest ==
                 IF tok.valueType # None /\ tok.valueType[1].typeScope # None
                 THEN IF tok.valueType[1].typeScope[1].className = None THEN TypeError
                      ELSE Some(<<"e", "n", "u", "m", "<">>
                                \o tok.valueType[1].typeScope[1].className[1] \o <<">">>)
                 ELSE IF ofDeclaration # None THEN ofDeclaration
                 ELSE IF tok.valueType # None THEN SignOf(tok.valueType)
                 ELSE None
         IN  IF tok.str = <<",">> THEN e2
             ELSE IF tok.str \in BoolOperators THEN Some(kw_bool)
             ELSE IF tok.str \in ShiftOperators THEN e1
             ELSE IF tok.str \in ArithmeticOperators
             THEN IF e1 = TypeError \/ e2 = TypeError THEN TypeError
                  ELSE IF e1 # None /\ e2 # None /\ e1 = e2 THEN e1
                  ELSE IF tok.valueType # None THEN SignOf(tok.valueType)
                  ELSE rest
             ELSE rest

\* the calls of getEssentialTypeCategory that getEssentialTypeCategory(expr)
\* makes, itself included, in the order in which they end: a call for the
\* second operand is made when the call for the first has returned
RECURSIVE CategoryCalls(_, _)
CategoryCalls(tokens, expr) ==
    LET self == <<EssentialCall("getEssentialTypeCategory", expr,
                                getEssentialTypeCategory(tokens, expr))>>
    IN  IF expr = 0 THEN self
        ELSE LET tok == tokens[expr]
             IN  IF tok.str = <<",">> THEN CategoryCalls(tokens, tok.astOperand2) \o self
                 ELSE IF tok.str \in BoolOperators THEN self
                 ELSE IF tok.str \in ShiftOperators
                 THEN CategoryCalls(tokens, tok.astOperand1) \o self
                 ELSE IF tok.str \in ArithmeticOperators
                 THEN CategoryCalls(tokens, tok.astOperand1)
                          \o (IF getEssentialTypeCategory(tokens, tok.astOperand1) = TypeError
                              THEN <<>>
                              ELSE CategoryCalls(tokens, tok.astOperand2))
                          \o self
                 ELSE self

\* the calls of 'e1 = getEssentialTypeCategory(operand1)' followed by
\* 'e2 = getEssentialTypeCategory(operand2)'
CategoryCallsOfBoth(tokens, operand1, operand2) ==
    CategoryCalls(tokens, operand1)
        \o (IF getEssentialTypeCategory(tokens, operand1) = TypeError THEN <<>>
            ELSE CategoryCalls(tokens, operand2))

\* getEssentialCategorylist(operand1, operand2): the two categories, whether
\* a call of getEssentialTypeCategory raised, and the calls made
getEssentialCategorylist(tokens, operand1, operand2) ==
    IF operand1 = 0 \/ operand2 = 0
    THEN [e1 |-> None, e2 |-> None, fault |-> FALSE, calls |-> <<>>]
    ELSE IF tokens[operand1].str \in {<<"+", "+">>, <<"-", "-">>}
            \/ tokens[operand2].str \in {<<"+", "+">>, <<"-", "-">>}
    THEN [e1 |-> None, e2 |-> None, fault |-> FALSE, calls |-> <<>>]
    ELSE IF IsPointer(tokens, operand1) \/ IsPointer(tokens, operand2)
    THEN [e1 |-> None, e2 |-> None, fault |-> FALSE, calls |-> <<>>]
    ELSE LET e1 == getEssentialTypeCategory(tokens, operand1)
             e2 == getEssentialTypeCategory(tokens, operand2)
         IN  [e1 |-> e1, e2 |-> e2, fault |-> e1 = TypeError \/ e2 = TypeError,
              calls |-> CategoryCallsOfBoth(tokens, operand1, operand2)]

\* what the body of the loop of a check function does at one token:
\* "none", "report" (reportError is called with the token) or "fault" (an
\* error is raised), and the calls of getEssentialType and
\* getEssentialTypeCategory it makes
Body(outcome, calls) == [outcome |-> outcome, calls |-> calls]

\* the body of the loop of misra_10_1 for token object t
misra_10_1_token(tokens, t) ==
    LET tok == tokens[t]
        e1 == getEssentialTypeCategory(tokens, tok.astOperand1)
        e2 == getEssentialTypeCategory(tokens, tok.astOperand2)
        calls == CategoryCallsOfBoth(tokens, tok.astOperand1, tok.astOperand2)
    IN  IF ~tok.isOp THEN Body("none", <<>>)
        ELSE IF e1 = TypeError \/ e2 = TypeError THEN Body("fault", calls)
        ELSE IF e1 = None \/ e2 = None THEN Body("none", calls)
        ELSE IF tok.str \in ShiftOperators
        THEN IF e1 # Some(kw_unsigned) THEN Body("report", calls)
             ELSE IF e2 # Some(kw_unsigned) /\ ~tokens[tok.astOperand2].isNumber
             THEN Body("report", calls)
             ELSE Body("none", calls)
        ELSE Body("none", calls)

\* the body of the loop of misra_10_4 for token object t
misra_10_4_token(tokens, t) ==
    LET tok == tokens[t]
        o1 == tok.astOperand1
        o2 == tok.astOperand2
        op == ArithmeticOperators \cup {<<"+", "=">>, <<"-", "=">>, <<":">>}
        operands ==
            IF (tokens[o1].str \in op \/ tokens[o1].isComparisonOp)
               /\ (tokens[o2].str \in op \/ tokens[o1].isComparisonOp)
            THEN <<tokens[o1].astOperand2, tokens[o2].astOperand1>>
            ELSE IF tokens[o1].str \in op \/ tokens[o1].isComparisonOp
            THEN <<tokens[o1].astOperand2, o2>>
            ELSE IF tokens[o2].str \in op \/ tokens[o2].isComparisonOp
            THEN <<o1, tokens[o2].astOperand1>>
            ELSE <<o1, o2>>
        list == getEssentialCategorylist(tokens, operands[1], operands[2])
        e1 == list.e1
        e2 == list.e2
        sign == {Some(kw_signed), Some(kw_unsigned)}
        Anonymous == <<"A", "n", "o", "n", "y", "m", "o", "u", "s">>
    IN  IF tok.str \notin op /\ ~tok.isComparisonOp THEN Body("none", <<>>)
        ELSE IF o1 = 0 \/ o2 = 0 THEN Body("none", <<>>)
        ELSE IF tokens[o1].valueType = None \/ tokens[o2].valueType = None
        THEN Body("none", <<>>)
        ELSE IF list.fault THEN Body("fault", list.calls)
        ELSE IF tok.str \in {<<"+", "=">>, <<"+">>}
                /\ \/ e1 = Some(kw_char) /\ e2 \in sign
                   \/ e2 = Some(kw_char) /\ e1 \in sign
        THEN Body("none", list.calls)
        ELSE IF tok.str \in {<<"-", "=">>, <<"-">>} /\ e1 = Some(kw_char) /\ e2 \in sign
        THEN Body("none", list.calls)
        ELSE IF e1 \in {None, Some(<<>>)} \/ e2 \in {None, Some(<<>>)}
        THEN Body("none", list.calls)
        ELSE IF find(e1[1], Anonymous) # -1 /\ e2 \in sign THEN Body("none", list.calls)
        ELSE IF find(e2[1], Anonymous) # -1 /\ e1 \in sign THEN Body("none", list.calls)
        ELSE IF e1 # e2 THEN Body("report", list.calls)
        ELSE Body("none", list.calls)

\* the body of the loop of misra_10_8 for token object t
misra_10_8_token(tokens, t) ==
    LET tok == tokens[t]
        o == tok.astOperand1
        intTypes == <<kw_char, kw_short, kw_int, kw_long, kw_long_long>>
    IN  IF ~isCast(tokens, t) THEN Body("none", <<>>)
        ELSE IF tok.valueType = None \/ tok.valueType[1].pointer > 0 THEN Body("none", <<>>)
        ELSE IF tokens[o].valueType = None \/ tokens[o].valueType[1].pointer > 0
        THEN Body("none", <<>>)
        ELSE IF tokens[o].astOperand1 = 0 THEN Body("none", <<>>)
        ELSE IF ~InList(tokens[o].str, CompositeOperators \o <<<<"~">>>>)
        THEN Body("none", <<>>)
        ELSE IF tokens[o].str # <<"~">> /\ tokens[o].astOperand2 = 0 THEN Body("none", <<>>)
        ELSE LET list ==
                     IF tokens[o].str = <<"~">>
                     THEN LET e == getEssentialTypeCategory(tokens, tokens[o].astOperand1)
                          IN  [e1 |-> e, e2 |-> e, fault |-> e = TypeError,
                               calls |-> CategoryCalls(tokens, tokens[o].astOperand1)]
                     ELSE getEssentialCategorylist(tokens, tokens[o].astOperand1,
                                                   tokens[o].astOperand2)
                 e2 == list.e1
                 e1 == getEssentialTypeCategory(tokens, t)
                 calls1 == list.calls \o CategoryCalls(tokens, t)
                 index1 == IndexOf(intTypes, tok.valueType[1].type)
                 e == getEssentialType(tokens, o)
                 calls2 == calls1 \o TypeCalls(tokens, o)
             IN  IF list.fault THEN Body("fault", list.calls)
                 ELSE IF list.e1 # list.e2 THEN Body("none", list.calls)
                 ELSE IF e1 = TypeError THEN Body("fault", calls1)
                 ELSE IF e1 # e2 THEN Body("report", calls1)
                 ELSE IF index1 = None THEN Body("none", calls1)
                 ELSE IF e = None \/ e = Some(<<>>) THEN Body("none", calls2)
                 ELSE IF IndexOf(intTypes, e[1]) = None THEN Body("none", calls2)
                 ELSE IF index1[1] > IndexOf(intTypes, e[1])[1] THEN Body("report", calls2)
                 ELSE Body("none", calls2)

\* a check function over data.tokenlist, given what the body of its loop
\* does at each token: its reports and its calls up to the first fault, and
\* whether there was a fault
RunWithCalls(body, num1, num2) ==
    LET outcome == [t \in 1..Len(body) |-> body[t].outcome]
        faults == {t \in 1..Len(body) : outcome[t] = "fault"}
        stop == IF faults = {} THEN Len(body)
                ELSE CHOOSE t \in faults : \A u \in faults : t <= u
        result == RunOverTokens(outcome, num1, num2)
    IN  [errors |-> result.errors, fault |-> result.fault,
         calls |-> CallsUpTo([t \in 1..Len(body) |-> body[t].calls], stop)]

\* the scope of a declared type in the program model (spec 3: ValueType has
\* a declared-type scope for enums and structs): its name, which is None
\* when the model has no name for the scope
TypeScope(className) == Some([className |-> className])

T_bool == DeclType(<<kw_bool>>, kw_bool, None, 0)

T_long_long == DeclType(<<kw_long, kw_long>>, kw_long_long, kw_signed, 0)

T_unsigned_int == DeclType(<<kw_unsigned, kw_int>>, kw_int, kw_unsigned, 0)

T_unsigned_short == DeclType(<<kw_unsigned, kw_short>>, kw_short, kw_unsigned, 0)

T_float == DeclType(<<kw_float>>, kw_float, None, 0)

\* 'enum E'
T_enum ==
    [words |-> <<kw_enum, <<"E">>>>, type |-> kw_int, sign |-> kw_signed, pointer |-> 0,
     typeScope |-> TypeScope(Some(<<"E">>))]

\* an enum without a name, which the analyzer names itself
T_enum_anonymous ==
    [words |-> <<kw_enum>>, type |-> kw_int, sign |-> kw_signed, pointer |-> 0,
     typeScope |-> TypeScope(Some(<<"A", "n", "o", "n", "y", "m", "o", "u", "s", "0">>))]

\* an enum whose scope has no name in the model
T_enum_unnamed ==
    [words |-> <<kw_enum>>, type |-> kw_int, sign |-> kw_signed, pointer |-> 0,
     typeScope |-> TypeScope(None)]

\* the declared types of the variables of the sources of SpecType
EssentialDeclTypes ==
    DeclTypes \cup {T_bool, T_unsigned_short, DeclType(<<kw_double>>, kw_double, None, 0),
                    T_enum, T_enum_anonymous, T_enum_unnamed}

\* the valueType of the operator of an expression: absent, or one of these
OperatorValueTypes ==
    {None, ValueType(kw_int, kw_signed, 0), ValueType(kw_int, kw_unsigned, 0)}

\* the operators of the sources of SpecType
EssentialOperators ==
    {<<"+">>, <<"-">>, <<"*">>, <<"&">>, <<"<", "<">>, <<">", ">">>, <<"<">>,
     <<"&", "&">>, <<",">>}

\* 'v = a op b ;' where the operator has the valueType vt
SrcOperation(Ta, Tb, op, vt) ==
    LET d == Declarations(T_int, Ta, Tb, T_int)
        n == Len(d.tokens)
    IN  d.tokens \o
        <<d.v, Assign(n + 1, n + 4, VT(T_int)), d.a, BinOp(op, n + 3, n + 5, vt),
          d.b, Punct(<<";">>)>>

\* 'v = c ? a : b ;'
SrcConditional(Tc, Ta, Tb) ==
    LET d == Declarations(T_int, Ta, Tb, Tc)
        n == Len(d.tokens)
    IN  d.tokens \o
        <<d.v, Assign(n + 1, n + 4, VT(T_int)), d.c,
          BinOp(<<"?">>, n + 3, n + 6, ResultVT(Ta, Tb)), d.a,
          BinOp(<<":">>, n + 5, n + 7, ResultVT(Ta, Tb)), d.b, Punct(<<";">>)>>

\* the number 1
Literal == AstTok(<<"1">>, FALSE, 0, 0, FALSE, None, ValueType(kw_int, kw_signed, 0))

\* 'v = a op 1 ;'
SrcLiteral(Ta, op) ==
    LET d == Declarations(T_int, Ta, T_int, T_int)
        n == Len(d.tokens)
    IN  d.tokens \o
        <<d.v, Assign(n + 1, n + 4, VT(T_int)), d.a,
          BinOp(op, n + 3, n + 5, ResultVT(Ta, T_int)), Literal, Punct(<<";">>)>>

\* 'v = a op1 b op2 c ;', 'v = a op2 b op1 a op2 c ;' and
\* 'v = a op1 b op2 1 ;' with the syntax trees of the C grammar, where op2
\* binds tighter than op1
SrcMixed(Ta, Tb, Tc, op1, op2) ==
    LET d == Declarations(T_int, Ta, Tb, Tc)
        n == Len(d.tokens)
    IN  { d.tokens \o
          <<d.v, Assign(n + 1, n + 4, VT(T_int)), d.a,
            BinOp(op1, n + 3, n + 6, ResultVT(Ta, ResultVT(Tb, Tc)[1])), d.b,
            BinOp(op2, n + 5, n + 7, ResultVT(Tb, Tc)), d.c, Punct(<<";">>)>>,
          d.tokens \o
          <<d.v, Assign(n + 1, n + 6, VT(T_int)), d.a,
            BinOp(op2, n + 3, n + 5, ResultVT(Ta, Tb)), d.b,
            BinOp(op1, n + 4, n + 8, ResultVT(ResultVT(Ta, Tb)[1], ResultVT(Ta, Tc)[1])),
            d.a, BinOp(op2, n + 7, n + 9, ResultVT(Ta, Tc)), d.c, Punct(<<";">>)>>,
          d.tokens \o
          <<d.v, Assign(n + 1, n + 4, VT(T_int)), d.a,
            BinOp(op1, n + 3, n + 6, ResultVT(Ta, ResultVT(Tb, T_int)[1])), d.b,
            BinOp(op2, n + 5, n + 7, ResultVT(Tb, T_int)), Literal, Punct(<<";">>)>> }

\* 'v = ( T ) ( a op b ) ;'
SrcCastOperation(T, Ta, Tb, op) ==
    LET d == Declarations(T_int, Ta, Tb, T_int)
        n == Len(d.tokens)
        w == WordsOfType(T)
        m == n + 3 + Len(w)
    IN  d.tokens \o
        <<d.v, Assign(n + 1, n + 3, VT(T_int)),
          AstTok(<<"(">>, FALSE, m + 4, 0, FALSE, None, VT(T))>>
        \o w \o
        <<Punct(<<")">>), Punct(<<"(">>), d.a, BinOp(op, m + 3, m + 5, ResultVT(Ta, Tb)),
          d.b, Punct(<<")">>), Punct(<<";">>)>>

\* 'v = ( T ) ~ a ;'
SrcCastComplement(T, Ta) ==
    LET d == Declarations(T_int, Ta, T_int, T_int)
        n == Len(d.tokens)
        w == WordsOfType(T)
        m == n + 3 + Len(w)
    IN  d.tokens \o
        <<d.v, Assign(n + 1, n + 3, VT(T_int)),
          AstTok(<<"(">>, FALSE, m + 2, 0, FALSE, None, VT(T))>>
        \o w \o
        <<Punct(<<")">>), AstTok(<<"~">>, FALSE, m + 3, 0, FALSE, None, ResultVT(Ta, Ta)),
          d.a, Punct(<<";">>)>>

\* the types of the sources with a cast or with two operators
CastTypes ==
    {DeclType(<<kw_char>>, kw_char, kw_signed, 0), T_int, T_long, T_unsigned_int, T_float}

\* the token lists whose essential types the rules take
EssentialSources ==
    {SrcOperation(Ta, Tb, op, vt) : Ta \in EssentialDeclTypes, Tb \in EssentialDeclTypes,
                                     op \in EssentialOperators, vt \in OperatorValueTypes}
    \cup {SrcConditional(Tc, Ta, Tb) : Tc \in {T_bool, T_int, T_long_long},
                                       Ta \in EssentialDeclTypes, Tb \in EssentialDeclTypes}
    \cup {SrcComplement(T_int, Ta) : Ta \in EssentialDeclTypes}
    \cup {SrcLiteral(Ta, op) : Ta \in EssentialDeclTypes, op \in {<<"+">>, <<"<", "<">>}}
    \cup UNION {SrcMixed(Ta, Tb, Tc, op1, op2) :
                    Ta \in CastTypes, Tb \in CastTypes, Tc \in {T_int, T_unsigned_int},
                    op1 \in {<<"+">>, <<"<">>}, op2 \in {<<"*">>}}
    \cup {SrcCastOperation(T, Ta, Tb, op) : T \in CastTypes, Ta \in CastTypes,
                                           Tb \in CastTypes, op \in {<<"+">>, <<"<", "<">>}}
    \cup {SrcCastComplement(T, Ta) : T \in CastTypes, Ta \in CastTypes}

\* parseDump is about to run the rules that take essential types and
\* categories, misra_10_1 first, on data.tokenlist
InitType ==
    /\ InitInDump({1001, 1004, 1006, 1008})
    /\ pc = "misra_10_1"
    /\ tokenlist \in EssentialSources
    /\ data = [tokenlist |-> tokenlist, rawTokens |-> <<>>]
    /\ rawTokens = <<>>
    /\ token = 0
    /\ state = STATE_NONE
    /\ end_swtich_token = None
    /\ executed = <<>>
    /\ runs = <<>>
    /\ essential = <<>>
    /\ returned = <<>>
    /\ ifStack = <<>>
    /\ frames = <<>>
    /\ visited = {}
    /\ errors = <<>>

\* a check function was run with that result: its reports are made, its
\* calls of getEssentialType and getEssentialTypeCategory are recorded, and
\* a fault ends parseDump
AfterEssentialCheck(result, next) ==
    /\ Reporting(result.errors,
                 [i \in 1..Len(result.errors) |-> tokenlist[result.errors[i].token]])
    /\ essential' = essential \o result.calls
    /\ pc' = IF result.fault THEN "fault" ELSE next
    /\ UNCHANGED <<regVars, verify, ruleTexts, verify_expected, typeBits, printed,
                   exitCode, dumpfiles, data, cfgNumber, checkIdx, found, seenTokens,
                   rawTokens, token, state, end_swtich_token, tokenlist, executed,
                   runs, returned, ifStack, frames, visited>>

\* misra_10_1(data)
Misra_10_1 ==
    /\ pc = "misra_10_1"
    /\ \E result \in {RunWithCalls([t \in 1..Len(tokenlist) |->
                                       misra_10_1_token(tokenlist, t)], 10, 1)} :
           AfterEssentialCheck(result, "misra_10_4")

\* misra_10_4(data)
Misra_10_4 ==
    /\ pc = "misra_10_4"
    /\ \E result \in {RunWithCalls([t \in 1..Len(tokenlist) |->
                                       misra_10_4_token(tokenlist, t)], 10, 4)} :
           AfterEssentialCheck(result, "misra_10_6")

\* misra_10_8(data); parseDump goes on to misra_12_1 unless rule 12.1 is
\* globally suppressed
Misra_10_8 ==
    /\ pc = "misra_10_8"
    /\ \E result \in {RunWithCalls([t \in 1..Len(tokenlist) |->
                                       misra_10_8_token(tokenlist, t)], 10, 8)} :
           AfterEssentialCheck(result,
                               IF isRuleGloballySuppressed(suppressedRules, 1201)
                               THEN "done" ELSE "misra_12_1")

NextType ==
    \/ Misra_10_1
    \/ Misra_10_4
    \/ Misra_10_6
    \/ Misra_10_8

SpecType == InitType /\ [][NextType]_vars

\* ---------------------------------------------------------------------
\* Claims about the essential types (SpecType)
\* ---------------------------------------------------------------------

\* the calls of getEssentialType the rules have made so far, those it makes
\* for the operands of an expression included
TypeCallsMade == {i \in 1..Len(essential) : essential[i].fn = "getEssentialType"}

\* the calls of getEssentialTypeCategory the rules have made so far
CategoryCallsMade == {i \in 1..Len(essential) : essential[i].fn = "getEssentialTypeCategory"}

\* what the calls of getEssentialType for the token returned, None when
\* there was no such call
TypeReturned(t) ==
    IF \E i \in TypeCallsMade : essential[i].expr = t
    THEN essential[CHOOSE i \in TypeCallsMade : essential[i].expr = t].result
    ELSE None

\* how the calls of getEssentialTypeCategory for the token ended, None when
\* there was no such call
CategoryReturned(t) ==
    IF \E i \in CategoryCallsMade : essential[i].expr = t
    THEN essential[CHOOSE i \in CategoryCallsMade : essential[i].expr = t].result
    ELSE None

\* the token has no operands in the syntax tree
IsLeaf(t) == t # 0 /\ tokenlist[t].astOperand1 = 0 /\ tokenlist[t].astOperand2 = 0

Ranks == <<kw_bool, kw_char, kw_short, kw_int, kw_long, kw_long_long>>

\* C15 as claimed: for a token without operands getEssentialType returns
\* one of bool, char, short, int, long, long long, or None.
C15_LeafRankOrNone ==
    \A i \in TypeCallsMade :
        IsLeaf(essential[i].expr)
        => \/ essential[i].result = None
           \/ \E k \in 1..Len(Ranks) : essential[i].result = Some(Ranks[k])

\* C15: for a token without operands getEssentialType returns one of bool,
\* char, short, int, long, long long, float, double, or None, and raises no
\* error.
C15_LeafTypeOrNone ==
    \A i \in TypeCallsMade :
        IsLeaf(essential[i].expr)
        => /\ essential[i].result # TypeError
           /\ \/ essential[i].result \in {None, Some(kw_float), Some(kw_double)}
              \/ \E k \in 1..Len(Ranks) : essential[i].result = Some(Ranks[k])

\* the rules have called getEssentialType for the use of a float variable,
\* for the use of an int variable and for a number
C15_Witness ==
    \E i, j, k \in TypeCallsMade :
        /\ IsLeaf(essential[i].expr) /\ tokenlist[essential[i].expr].variable # None
        /\ essential[i].result = Some(kw_float)
        /\ IsLeaf(essential[j].expr) /\ tokenlist[essential[j].expr].variable # None
        /\ essential[j].result = Some(kw_int)
        /\ IsLeaf(essential[k].expr) /\ tokenlist[essential[k].expr].isNumber
        /\ essential[k].result = None


\* the position of an essential type in the order of the ranks, 0 when it
\* is None or not a rank
RankOf(e) ==
    IF e # None /\ \E i \in 1..Len(Ranks) : Ranks[i] = e[1]
    THEN CHOOSE i \in 1..Len(Ranks) : Ranks[i] = e[1]
    ELSE 0

\* the token is a binary arithmetic, bitwise, shift or conditional
\* expression
IsCompositeExpression(t) ==
    /\ t # 0
    /\ tokenlist[t].astOperand1 # 0
    /\ tokenlist[t].astOperand2 # 0
    /\ tokenlist[t].str \in
           ArithmeticOperators \cup ShiftOperators \cup {<<"?">>, <<":">>}

\* C16: what getEssentialType returns for a binary arithmetic, bitwise,
\* shift or conditional expression is None when an operand is a pointer or
\* getEssentialType returns no rank for an operand, and the higher of the
\* ranks it returns for the two operands otherwise.
C16_HigherOperandRank ==
    \A i \in TypeCallsMade :
        IsCompositeExpression(essential[i].expr) =>
            LET op1 == tokenlist[essential[i].expr].astOperand1
                op2 == tokenlist[essential[i].expr].astOperand2
                r1 == RankOf(TypeReturned(op1))
                r2 == RankOf(TypeReturned(op2))
            IN  IF IsPointer(tokenlist, op1) \/ IsPointer(tokenlist, op2)
                   \/ r1 = 0 \/ r2 = 0
                THEN essential[i].result = None
                ELSE essential[i].result = Some(Ranks[IF r1 >= r2 THEN r1 ELSE r2])

\* misra_10_6 has taken the essential type of 'c ? a : b', where c has a
\* higher rank than ':', and b a higher rank than a
C16_Witness ==
    \E i \in TypeCallsMade :
        LET t == essential[i].expr
        IN  /\ t # 0
            /\ tokenlist[t].str = <<"?">>
            /\ LET u == tokenlist[t].astOperand2
               IN  /\ RankOf(TypeReturned(u)) > 0
                   /\ RankOf(TypeReturned(tokenlist[t].astOperand1)) > RankOf(TypeReturned(u))
                   /\ RankOf(TypeReturned(tokenlist[u].astOperand2))
                          > RankOf(TypeReturned(tokenlist[u].astOperand1))
                   /\ RankOf(TypeReturned(tokenlist[u].astOperand1)) > 0
                   /\ essential[i].result = TypeReturned(tokenlist[t].astOperand1)


\* the token is a use of a declared variable, without operands
IsVariableLeaf(t) == IsLeaf(t) /\ tokenlist[t].variable # None

\* the rank the variable of the token was declared with (the type of the
\* valueType the declaration gave it), 0 when that is not a rank or the
\* variable is a pointer or of an enum type
DeclaredRank(t) ==
    IF /\ tokenlist[t].valueType # None
       /\ tokenlist[t].valueType[1].pointer = 0
       /\ tokenlist[t].valueType[1].typeScope = None
    THEN RankOf(Some(tokenlist[t].valueType[1].type))
    ELSE 0

\* C17 as claimed: for a use of a variable declared with one of the ranks
\* bool, char, short, int, long, long long, getEssentialType returns that
\* rank.
C17_LeafDeclaredRank ==
    \A i \in TypeCallsMade :
        (IsVariableLeaf(essential[i].expr) /\ DeclaredRank(essential[i].expr) > 0)
        => essential[i].result = Some(Ranks[DeclaredRank(essential[i].expr)])

\* the same for the variables declared char, short, int or long, with or
\* without 'unsigned'
LeafDeclaredRankUpToLong ==
    \A i \in TypeCallsMade :
        (/\ IsVariableLeaf(essential[i].expr)
         /\ DeclaredRank(essential[i].expr) \in 2..5)
        => essential[i].result = Some(Ranks[DeclaredRank(essential[i].expr)])


\* the token is a binary operator
HasTwoOperands(t) == tokenlist[t].astOperand1 # 0 /\ tokenlist[t].astOperand2 # 0

\* the signedness of the value type of the token itself, None when it has
\* no value type or its value type has no sign
OwnSignedness(t) ==
    IF tokenlist[t].valueType = None THEN None
    ELSE IF tokenlist[t].valueType[1].sign = None THEN None
    ELSE Some(tokenlist[t].valueType[1].sign)

\* how the call of getEssentialTypeCategory for an operand ended: None when
\* there is no such operand or no such call
OperandCategory(operand) == IF operand = 0 THEN None ELSE CategoryReturned(operand)

\* for every call of getEssentialTypeCategory the rules have made: the
\* category of a comparison or logical operator is bool, the category of a
\* shift is the category of its first operand, and the category of a binary
\* arithmetic or bitwise operator among the given tokens is the category of
\* its operands when they have the same known category and the signedness
\* of its own value type otherwise
CategoryOfOperators(operators) ==
    \A i \in CategoryCallsMade :
        LET t == essential[i].expr
        IN  t # 0 =>
                LET c1 == OperandCategory(tokenlist[t].astOperand1)
                    c2 == OperandCategory(tokenlist[t].astOperand2)
                IN  /\ tokenlist[t].str \in BoolOperators
                           => essential[i].result = Some(kw_bool)
                    /\ tokenlist[t].str \in ShiftOperators
                           => essential[i].result = c1
                    /\ (/\ tokenlist[t].str \in ArithmeticOperators
                        /\ HasTwoOperands(t)
                        /\ t \in operators)
                           => essential[i].result =
                                  IF c1 # None /\ c1 = c2 THEN c1 ELSE OwnSignedness(t)

ReturnedCategoryOfOperators ==
    CategoryOfOperators({t \in 1..Len(tokenlist) :
                            /\ OperandCategory(tokenlist[t].astOperand1) # TypeError
                            /\ OperandCategory(tokenlist[t].astOperand2) # TypeError})

\* for a binary arithmetic or bitwise operator getEssentialTypeCategory
\* raises an error exactly when it does for one of the operands
RaisedForOperand ==
    \A i \in CategoryCallsMade :
        LET t == essential[i].expr
        IN  (t # 0 /\ tokenlist[t].str \in ArithmeticOperators /\ HasTwoOperands(t))
            => (essential[i].result = TypeError
                <=> TypeError \in {OperandCategory(tokenlist[t].astOperand1),
                                   OperandCategory(tokenlist[t].astOperand2)})

\* misra_10_1 has taken the category of 'a << b', where a is unsigned, b is
\* signed and the shift itself has a signed value type
C18_Witness ==
    \E i \in CategoryCallsMade :
        LET t == essential[i].expr
        IN  /\ t # 0
            /\ tokenlist[t].str = <<"<", "<">>
            /\ CategoryReturned(tokenlist[t].astOperand1) = Some(kw_unsigned)
            /\ CategoryReturned(tokenlist[t].astOperand2) = Some(kw_signed)
            /\ OwnSignedness(t) = Some(kw_signed)
            /\ essential[i].result = Some(kw_unsigned)


\* ---------------------------------------------------------------------
\* Rules 5.1 to 5.5 on the variables, scopes and directives of a
\* configuration (SpecIdent)
\* ---------------------------------------------------------------------

\* the concatenation of the sequences of a sequence
RECURSIVE Concat(_)
Concat(seqs) == IF seqs = <<>> THEN <<>> ELSE Head(seqs) \o Concat(Tail(seqs))

\* the elements of the sequence that are in the set, in order
Only(seq, set) == SelectSeq(seq, LAMBDA x : x \in set)

\* the sequence 1, ..., n
UpTo(n) == [i \in 1..n |-> i]

\* s[:n]
Take(s, n) == IF Len(s) <= n THEN s ELSE SubSeq(s, 1, n)

\* the members of the sequence without repetition, in the order of their
\* first occurrence: the keys of a dict filled in that order
RECURSIVE Keys(_)
Keys(seq) ==
    IF seq = <<>> THEN <<>>
    ELSE LET front == Keys(SubSeq(seq, 1, Len(seq) - 1))
             last == seq[Len(seq)]
         IN  IF InList(last, front) THEN front ELSE Append(front, last)

\* MisraChecker.get_num_significant_naming_chars(cfg)
get_num_significant_naming_chars(cfg) ==
    IF cfg.standards # None /\ cfg.standards[1].c = <<"c", "9", "9">> THEN 63 ELSE 31

\* hasExternalLinkage(var)
hasExternalLinkage(var) == var.isGlobal /\ ~var.isStatic

\* reportError(var.nameToken, num1, num2) for variable number v
AtNameToken(v, num1, num2) == [token |-> <<"nameToken", v>>, num1 |-> num1, num2 |-> num2]

\* reportError(scope.bodyStart, num1, num2) for scope number s
AtBodyStart(s, num1, num2) == [token |-> <<"bodyStart", s>>, num1 |-> num1, num2 |-> num2]

\* reportError(dir, num1, num2) for directive number k
AtDirective(k, num1, num2) == [token |-> <<"directive", k>>, num1 |-> num1, num2 |-> num2]

\* sorted(tokens, key=lambda t: (t.linenr, t.column)) for the name tokens
\* of the variables vs: the sort is stable
RECURSIVE SortedByPosition(_, _)
SortedByPosition(cfg, vs) ==
    IF vs = <<>> THEN <<>>
    ELSE LET Before(a, b) ==
                 LET ta == cfg.variables[a].nameToken[1]
                     tb == cfg.variables[b].nameToken[1]
                 IN  ta.linenr < tb.linenr \/ (ta.linenr = tb.linenr /\ ta.column < tb.column)
             first == CHOOSE i \in 1..Len(vs) :
                          /\ \A j \in 1..Len(vs) : ~Before(vs[j], vs[i])
                          /\ \A j \in 1..(i - 1) : Before(vs[i], vs[j])
         IN  <<vs[first]>>
             \o SortedByPosition(cfg, [j \in 1..(Len(vs) - 1) |->
                                          IF j < first THEN vs[j] ELSE vs[j + 1]])

\* misra_5_1(data): the reportError calls, in order
misra_5_1(cfg) ==
    LET long == Only(UpTo(Len(cfg.variables)),
                     {v \in 1..Len(cfg.variables) :
                         /\ cfg.variables[v].nameToken # None
                         /\ Len(cfg.variables[v].nameToken[1].str) > 31
                         /\ hasExternalLinkage(cfg.variables[v])})
        Prefix(v) == Take(cfg.variables[v].nameToken[1].str, 31)
        prefixes == Keys([i \in 1..Len(long) |-> Prefix(long[i])])
        Tokens(name_prefix) ==
            Only(long, {v \in 1..Len(cfg.variables) :
                           cfg.variables[v].nameToken # None /\ Prefix(v) = name_prefix})
    IN  Concat([p \in 1..Len(prefixes) |->
                   LET tokens == Tokens(prefixes[p])
                   IN  IF Len(tokens) < 2 THEN <<>>
                       ELSE LET sorted == Tail(SortedByPosition(cfg, tokens))
                            IN  [i \in 1..Len(sorted) |-> AtNameToken(sorted[i], 5, 1)]])

\* misra_5_2(data): the reportError calls, in order
misra_5_2(cfg) ==
    LET long == Only(UpTo(Len(cfg.variables)),
                     {v \in 1..Len(cfg.variables) :
                         /\ cfg.variables[v].nameToken # None
                         /\ Len(cfg.variables[v].nameToken[1].str) > 31})
        named == Only(UpTo(Len(cfg.scopes)),
                      {s \in 1..Len(cfg.scopes) :
                          cfg.scopes[s].nestedIn # 0 /\ cfg.scopes[s].className # <<>>})
        scopeVars == Keys([i \in 1..Len(long) |-> cfg.variables[long[i]].nameToken[1].scope]
                          \o [i \in 1..Len(named) |-> cfg.scopes[named[i]].nestedIn])
        Varlist(scope) ==
            Only(long, {v \in 1..Len(cfg.variables) :
                           /\ cfg.variables[v].nameToken # None
                           /\ cfg.variables[v].nameToken[1].scope = scope})
        Scopelist(scope) ==
            Only(named, {s \in 1..Len(cfg.scopes) : cfg.scopes[s].nestedIn = scope})
        Name(v) == Take(cfg.variables[v].nameToken[1].str, 31)
        Line(v) == cfg.variables[v].nameToken[1].linenr
        ClassName(s) == Take(cfg.scopes[s].className, 31)
        Start(s) == cfg.scopes[s].bodyStart.linenr
        OfVariables(v1, v2) ==
            IF cfg.variables[v1].isArgument /\ cfg.variables[v2].isArgument THEN <<>>
            ELSE IF hasExternalLinkage(cfg.variables[v1])
                    \/ hasExternalLinkage(cfg.variables[v2]) THEN <<>>
            ELSE IF Name(v1) = Name(v2) /\ cfg.variables[v1].Id # cfg.variables[v2].Id
            THEN IF Line(v1) > Line(v2) THEN <<AtNameToken(v1, 5, 2)>>
                 ELSE <<AtNameToken(v2, 5, 2)>>
            ELSE <<>>
        OfScope(v1, s) ==
            IF Name(v1) = ClassName(s)
            THEN IF Line(v1) > Start(s) THEN <<AtNameToken(v1, 5, 2)>>
                 ELSE <<AtBodyStart(s, 5, 2)>>
            ELSE <<>>
        OfScopes(s1, s2) ==
            IF ClassName(s1) = ClassName(s2)
            THEN IF Start(s1) > Start(s2) THEN <<AtBodyStart(s1, 5, 2)>>
                 ELSE <<AtBodyStart(s2, 5, 2)>>
            ELSE <<>>
    IN  Concat([k \in 1..Len(scopeVars) |->
           LET varlist == Varlist(scopeVars[k])
               scopelist == Scopelist(scopeVars[k])
           IN  IF Len(varlist) <= 1 THEN <<>>
               ELSE Concat([i \in 1..Len(varlist) |->
                               Concat([j \in 1..(Len(varlist) - i) |->
                                          OfVariables(varlist[i], varlist[i + j])])
                               \o Concat([j \in 1..Len(scopelist) |->
                                             OfScope(varlist[i], scopelist[j])])])
                    \o (IF Len(scopelist) <= 1 THEN <<>>
                        ELSE Concat([i \in 1..Len(scopelist) |->
                                        Concat([j \in 1..(Len(scopelist) - i) |->
                                                   OfScopes(scopelist[i],
                                                            scopelist[i + j])])]))])

\* misra_5_3(data): the reportError calls, in order
misra_5_3(cfg) ==
    LET num_sign_chars == get_num_significant_naming_chars(cfg)
        named == Only(UpTo(Len(cfg.variables)),
                      {v \in 1..Len(cfg.variables) : cfg.variables[v].nameToken # None})
        ScopeVars(scope) ==
            Only(named, {v \in 1..Len(cfg.variables) :
                            /\ cfg.variables[v].nameToken # None
                            /\ cfg.variables[v].nameToken[1].scope = scope})
        Name(v) == Take(cfg.variables[v].nameToken[1].str, num_sign_chars)
        Line(v) == cfg.variables[v].nameToken[1].linenr
        ClassName(s) == Take(cfg.scopes[s].className, num_sign_chars)
        Start(s) == cfg.scopes[s].bodyStart.linenr
        MapScopes(s_name) ==
            Only(UpTo(Len(cfg.scopes)),
                 {s \in 1..Len(cfg.scopes) :
                     cfg.scopes[s].className # <<>> /\ ClassName(s) = s_name})
        \* the keys of enum after the scopes before number k were visited
        Enum(k) ==
            UNION {{Take(cfg.scopes[s].body[i].str, num_sign_chars) :
                       i \in {i \in 1..Len(cfg.scopes[s].body) :
                                 cfg.scopes[s].body[i].values /\ cfg.scopes[s].body[i].isName}} :
                   s \in {s \in 1..(k - 1) : cfg.scopes[s].type = "Enum"}}
        OfOuterVar(innerVar, outerScope, outerVar) ==
            IF Name(innerVar) = Name(outerVar)
            THEN IF /\ cfg.variables[outerVar].isArgument
                    /\ cfg.scopes[outerScope].type = "Global"
                    /\ ~cfg.variables[innerVar].isArgument
                 THEN <<>>
                 ELSE IF Line(innerVar) > Line(outerVar)
                 THEN <<AtNameToken(innerVar, 5, 3)>>
                 ELSE <<AtNameToken(outerVar, 5, 3)>>
            ELSE <<>>
        RECURSIVE OfOuterScopes(_, _)
        OfOuterScopes(innerVar, outerScope) ==
            IF outerScope = 0 THEN <<>>
            ELSE LET outerVars == ScopeVars(outerScope)
                 IN  Concat([i \in 1..Len(outerVars) |->
                                OfOuterVar(innerVar, outerScope, outerVars[i])])
                     \o OfOuterScopes(innerVar, cfg.scopes[outerScope].nestedIn)
        OfInnerVar(innerScope, innerVar) ==
            OfOuterScopes(innerVar, cfg.scopes[innerScope].nestedIn)
            \o (LET scopes == MapScopes(Name(innerVar))
                IN  [i \in 1..Len(scopes) |->
                        IF Line(innerVar) > Start(scopes[i])
                        THEN AtNameToken(innerVar, 5, 3)
                        ELSE AtBodyStart(scopes[i], 5, 3)])
            \o (IF Name(innerVar) \in Enum(innerScope)
                THEN IF Line(innerVar) > Start(innerScope)
                     THEN <<AtNameToken(innerVar, 5, 3)>>
                     ELSE <<AtBodyStart(innerScope, 5, 3)>>
                ELSE <<>>)
    IN  Concat([innerScope \in 1..Len(cfg.scopes) |->
                   IF cfg.scopes[innerScope].type \in {"Enum", "Global"} THEN <<>>
                   ELSE LET innerVars == ScopeVars(innerScope)
                        IN  Concat([i \in 1..Len(innerVars) |->
                                       OfInnerVar(innerScope, innerVars[i])])])
        \o Concat([s \in 1..Len(cfg.scopes) |->
                      IF cfg.scopes[s].className # <<>>
                         /\ ClassName(s) \in Enum(Len(cfg.scopes) + 1)
                      THEN <<AtBodyStart(s, 5, 3)>>
                      ELSE <<>>])

\* the characters of the class [a-zA-Z0-9_]
WordChars ==
    {UpperCase[i] : i \in 1..26} \cup {LowerCase[i] : i \in 1..26}
    \cup {Digits[i] : i \in 1..10} \cup {"_"}

\* the longest prefix of s whose characters are all in the set
Run(s, chars) ==
    SubSeq(s, 1, CHOOSE n \in 0..Len(s) :
                     /\ \A i \in 1..n : s[i] \in chars
                     /\ n = Len(s) \/ s[n + 1] \notin chars)

\* group 1 of re.match('#define ([a-zA-Z0-9_]+)', s), None without a match
MacroName(s) ==
    LET define == <<"#", "d", "e", "f", "i", "n", "e", " ">>
    IN  IF startswith(s, define) /\ Run(StrFrom(s, Len(define)), WordChars) # <<>>
        THEN Some(Run(StrFrom(s, Len(define)), WordChars))
        ELSE None

\* group 2 of re.match('#define ([a-zA-Z0-9_]+)[(]([a-zA-Z0-9_, ]+)[)]', s),
\* split at the commas and with the spaces taken out; None without a match
MacroParams(s) ==
    IF MacroName(s) = None THEN None
    ELSE LET rest == StrFrom(s, 8 + Len(MacroName(s)[1]))
             inside == Run(StrFrom(rest, 1), WordChars \cup {",", " "})
         IN  IF /\ rest # <<>>
                /\ rest[1] = "("
                /\ inside # <<>>
                /\ Len(rest) > 1 + Len(inside)
                /\ rest[2 + Len(inside)] = ")"
             THEN LET res_gp2 == split(inside, ",")
                  IN  Some([i \in 1..Len(res_gp2) |->
                               SelectSeq(res_gp2[i], LAMBDA c : c # " ")])
             ELSE None

\* misra_5_4(data): the reportError calls, in order
misra_5_4(cfg) ==
    LET num_sign_chars == get_num_significant_naming_chars(cfg)
        dirs == cfg.directives
        Name(k) == MacroName(dirs[k].str)
        Short(k) == Take(Name(k)[1], num_sign_chars)
        \* short_names[short_name] after the first n directives: the first
        \* directive with that short name, 0 without one
        ShortNames(short_name, n) ==
            IF \E k \in 1..n : Name(k) # None /\ Short(k) = short_name
            THEN CHOOSE k \in 1..n :
                     /\ Name(k) # None /\ Short(k) = short_name
                     /\ \A j \in 1..(k - 1) : ~(Name(j) # None /\ Short(j) = short_name)
            ELSE 0
        macro_w_arg == Only(UpTo(Len(dirs)),
                            {k \in 1..Len(dirs) : MacroParams(dirs[k].str) # None})
        OfParam(mvar, i) ==
            LET params == MacroParams(dirs[mvar].str)[1]
                m_var1 == ShortNames(Take(params[i], num_sign_chars), Len(dirs))
            IN  Concat([j \in 1..Len(params) |->
                           IF j > i /\ Take(params[i], num_sign_chars)
                                         = Take(params[j], num_sign_chars)
                           THEN <<AtDirective(mvar, 5, 4)>>
                           ELSE <<>>])
                \o (IF m_var1 = 0 THEN <<>>
                    ELSE IF dirs[m_var1].linenr > dirs[mvar].linenr
                    THEN <<AtDirective(m_var1, 5, 4)>>
                    ELSE <<AtDirective(mvar, 5, 4)>>)
    IN  Concat([k \in 1..Len(dirs) |->
                   IF Name(k) # None
                      /\ ShortNames(Short(k), k - 1) # 0
                      /\ Name(k) # Name(ShortNames(Short(k), k - 1))
                   THEN <<AtDirective(k, 5, 4)>>
                   ELSE <<>>])
        \o Concat([m \in 1..Len(macro_w_arg) |->
                      Concat([i \in 1..Len(MacroParams(dirs[macro_w_arg[m]].str)[1]) |->
                                 OfParam(macro_w_arg[m], i)])])

\* misra_5_5(data): the reportError calls, in order
misra_5_5(cfg) ==
    LET num_sign_chars == get_num_significant_naming_chars(cfg)
        macroNames ==
            {Take(MacroName(cfg.directives[k].str)[1], num_sign_chars) :
                k \in {k \in 1..Len(cfg.directives) :
                        MacroName(cfg.directives[k].str) # None}}
    IN  Concat([v \in 1..Len(cfg.variables) |->
                   IF cfg.variables[v].nameToken # None
                      /\ Take(cfg.variables[v].nameToken[1].str, num_sign_chars) \in macroNames
                   THEN <<AtNameToken(v, 5, 5)>>
                   ELSE <<>>])
        \o Concat([s \in 1..Len(cfg.scopes) |->
                      IF cfg.scopes[s].className # <<>>
                         /\ Take(cfg.scopes[s].className, num_sign_chars) \in macroNames
                      THEN <<AtBodyStart(s, 5, 5)>>
                      ELSE <<>>])


\* a name of n times the letter c
Letters(c, n) == [i \in 1..n |-> c]

\* two names of 32 characters that differ in the last one
Name32x == Letters("a", 31) \o <<"x">>

Name32y == Letters("a", 31) \o <<"y">>

\* two names of 64 characters that differ in the last one
Name64x == Letters("b", 63) \o <<"x">>

Name64y == Letters("b", 63) \o <<"y">>

\* the pairs of names of the sources: equal in the first 31 characters
\* only, equal in the first 63 only, equal, short and equal, short and
\* different
NamePairs ==
    { <<Name32x, Name32y>>, <<Name64x, Name64y>>, <<Name32x, Name32x>>,
      <<<<"a", "b", "c">>, <<"a", "b", "c">>>>, <<<<"a", "b", "c">>, <<"a", "b", "d">>>> }

\* cfg.standards
Standards == { None, Some([c |-> <<"c", "8", "9">>]), Some([c |-> <<"c", "9", "9">>]) }

\* a variable with its name token
Variable(Id, name, linenr, scope, isGlobal, isStatic) ==
    [Id |-> Id, isArgument |-> FALSE, isGlobal |-> isGlobal, isStatic |-> isStatic,
     nameToken |-> Some([str |-> name, file |-> SourceFile, linenr |-> linenr,
                         column |-> 1, scope |-> scope])]

\* a scope; body holds the tokens between bodyStart and bodyEnd
Scope(type, className, nestedIn, linenr, body) ==
    [type |-> type, className |-> className, nestedIn |-> nestedIn,
     bodyStart |-> [file |-> SourceFile, linenr |-> linenr], body |-> body]

GlobalScope == Scope("Global", <<>>, 0, 0, <<>>)

\* 'void f ( ) {' on that line
FunctionScope(linenr) == Scope("Function", <<"f">>, 1, linenr, <<>>)

\* 'enum E { name } ;' on that line
EnumScope(name, linenr) ==
    Scope("Enum", <<"E">>, 1, linenr,
          <<[str |-> name, isName |-> TRUE, values |-> TRUE, linenr |-> linenr]>>)

\* '#define name' and '#define F(name)' on that line
Define(name, linenr) ==
    [str |-> <<"#", "d", "e", "f", "i", "n", "e", " ">> \o name, file |-> SourceFile,
     linenr |-> linenr]

DefineWithParameter(name, linenr) ==
    [str |-> <<"#", "d", "e", "f", "i", "n", "e", " ", "F", "(">> \o name \o <<")">>,
     file |-> SourceFile, linenr |-> linenr]

Configuration(variables, scopes, directives, standards) ==
    [variables |-> variables, scopes |-> scopes, directives |-> directives,
     standards |-> standards]

\* the configurations of the sources with the two names n[1] and n[2], the
\* first declared on an earlier line than the second
ConfigurationsOf(n, std) ==
    { \* two variables with external linkage
      Configuration(<<Variable(1, n[1], 1, 1, TRUE, FALSE),
                      Variable(2, n[2], 2, 1, TRUE, FALSE)>>,
                    <<GlobalScope>>, <<>>, std),
      \* two variables of a function
      Configuration(<<Variable(1, n[1], 2, 2, FALSE, FALSE),
                      Variable(2, n[2], 3, 2, FALSE, FALSE)>>,
                    <<GlobalScope, FunctionScope(1)>>, <<>>, std),
      \* a static variable of the file and a variable of a function
      Configuration(<<Variable(1, n[1], 1, 1, TRUE, TRUE),
                      Variable(2, n[2], 3, 2, FALSE, FALSE)>>,
                    <<GlobalScope, FunctionScope(2)>>, <<>>, std),
      \* a variable of a function, another of an unrelated long name, and a
      \* struct of the function
      Configuration(<<Variable(1, n[1], 2, 2, FALSE, FALSE),
                      Variable(2, Letters("q", 32), 3, 2, FALSE, FALSE)>>,
                    <<GlobalScope, FunctionScope(1), Scope("Struct", n[2], 2, 4, <<>>)>>,
                    <<>>, std),
      \* a struct of a function and a variable of the function
      Configuration(<<Variable(1, n[2], 3, 2, FALSE, FALSE)>>,
                    <<GlobalScope, FunctionScope(1), Scope("Struct", n[1], 2, 2, <<>>)>>,
                    <<>>, std),
      \* a struct and an enumerator
      Configuration(<<>>,
                    <<GlobalScope, Scope("Struct", n[1], 1, 1, <<>>), EnumScope(n[2], 2)>>,
                    <<>>, std),
      \* an enumerator and a struct
      Configuration(<<>>,
                    <<GlobalScope, EnumScope(n[1], 1), Scope("Struct", n[2], 1, 2, <<>>)>>,
                    <<>>, std),
      \* an enumerator and a variable of a function
      Configuration(<<Variable(1, n[2], 3, 3, FALSE, FALSE)>>,
                    <<GlobalScope, EnumScope(n[1], 1), FunctionScope(2)>>, <<>>, std),
      \* two macros
      Configuration(<<>>, <<GlobalScope>>, <<Define(n[1], 1), Define(n[2], 2)>>, std),
      \* a macro and a parameter of a macro
      Configuration(<<>>, <<GlobalScope>>,
                    <<Define(n[1], 1), DefineWithParameter(n[2], 2)>>, std),
      \* a parameter of a macro and a macro
      Configuration(<<>>, <<GlobalScope>>,
                    <<DefineWithParameter(n[1], 1), Define(n[2], 2)>>, std),
      \* a macro and a variable
      Configuration(<<Variable(1, n[2], 2, 1, TRUE, FALSE)>>, <<GlobalScope>>,
                    <<Define(n[1], 1)>>, std) }

IdentSources == UNION {ConfigurationsOf(n, std) : n \in NamePairs, std \in Standards}

\* parseDump is about to run the rules 5.1 to 5.5 on a configuration
InitIdent ==
    /\ InitInDump({501, 502, 503, 504, 505})
    /\ data \in IdentSources
    /\ pc = "misra_5_1"
    /\ InitNoRule

\* the location of a report: the name token of a variable, the start of a
\* scope, or a directive
LocationOf(cfg, at) ==
    IF at[1] = "nameToken" THEN cfg.variables[at[2]].nameToken[1]
    ELSE IF at[1] = "bodyStart" THEN cfg.scopes[at[2]].bodyStart
    ELSE cfg.directives[at[2]]

\* a check function reported these violations, and the next one is due
Reported(result, next) ==
    /\ Reporting(result, [i \in 1..Len(result) |-> LocationOf(data, result[i].token)])
    /\ pc' = next
    /\ UNCHANGED <<regVars, verify, ruleTexts, verify_expected, typeBits, printed,
                   exitCode, dumpfiles, data, cfgNumber, checkIdx, found, seenTokens,
                   rawTokens, token, state, end_swtich_token, tokenlist, executed,
                   runs, essential, returned, ifStack, frames, visited>>

Misra_5_1 == pc = "misra_5_1" /\ Reported(misra_5_1(data), "misra_5_2")

Misra_5_2 == pc = "misra_5_2" /\ Reported(misra_5_2(data), "misra_5_3")

Misra_5_3 == pc = "misra_5_3" /\ Reported(misra_5_3(data), "misra_5_4")

Misra_5_4 == pc = "misra_5_4" /\ Reported(misra_5_4(data), "misra_5_5")

Misra_5_5 == pc = "misra_5_5" /\ Reported(misra_5_5(data), "done")

NextIdent ==
    \/ Misra_5_1
    \/ Misra_5_2
    \/ Misra_5_3
    \/ Misra_5_4
    \/ Misra_5_5

SpecIdent == InitIdent /\ [][NextIdent]_vars

\* ---------------------------------------------------------------------
\* Claims about the rules 5.1 to 5.5 (SpecIdent)
\* ---------------------------------------------------------------------

\* the identifiers a configuration declares: the names of its variables,
\* scopes, enumerators, macros and macro parameters, each with the token a
\* violation for it is reported at and the line it is declared on
Identifiers(cfg) ==
    {[name |-> cfg.variables[v].nameToken[1].str, token |-> <<"nameToken", v>>,
      key |-> <<"variable", v, 0>>, linenr |-> cfg.variables[v].nameToken[1].linenr] :
        v \in {v \in 1..Len(cfg.variables) : cfg.variables[v].nameToken # None}}
    \cup {[name |-> cfg.scopes[s].className, token |-> <<"bodyStart", s>>,
           key |-> <<"scope", s, 0>>, linenr |-> cfg.scopes[s].bodyStart.linenr] :
             s \in {s \in 1..Len(cfg.scopes) : cfg.scopes[s].className # <<>>}}
    \cup UNION {{[name |-> cfg.scopes[s].body[i].str, token |-> <<"enumerator", s>>,
                  key |-> <<"enumerator", s, i>>, linenr |-> cfg.scopes[s].body[i].linenr] :
                    i \in 1..Len(cfg.scopes[s].body)} :
                s \in {s \in 1..Len(cfg.scopes) : cfg.scopes[s].type = "Enum"}}
    \cup {[name |-> MacroName(cfg.directives[k].str)[1], token |-> <<"directive", k>>,
           key |-> <<"macro", k, 0>>, linenr |-> cfg.directives[k].linenr] :
             k \in {k \in 1..Len(cfg.directives) : MacroName(cfg.directives[k].str) # None}}
    \cup UNION {{[name |-> MacroParams(cfg.directives[k].str)[1][i],
                  token |-> <<"directive", k>>,
                  key |-> <<"parameter", k, i>>, linenr |-> cfg.directives[k].linenr] :
                    i \in 1..Len(MacroParams(cfg.directives[k].str)[1])} :
                k \in {k \in 1..Len(cfg.directives) :
                          MacroParams(cfg.directives[k].str) # None}}

\* two different identifiers that are equal in their first n characters
Collide(a, b, n) == a.key # b.key /\ Take(a.name, n) = Take(b.name, n)

\* the number of characters the check function of rule 5.num2 compares
ComparedBy(cfg, num2) ==
    IF num2 \in {1, 2} THEN 31 ELSE get_num_significant_naming_chars(cfg)

\* C19 as claimed: a violation of rule 5.2, 5.3 or 5.4 is never reported
\* at an identifier that collides with an identifier declared on a later
\* line.
C19_ReportedAtLater ==
    \A i \in 1..Len(errors) :
        errors[i].num2 \in {2, 3, 4} =>
            ~ \E a, b \in Identifiers(data) :
                  /\ a.token = errors[i].token
                  /\ Collide(a, b, ComparedBy(data, errors[i].num2))
                  /\ b.linenr > a.linenr

\* C20 as claimed: a violation of a rule 5.1 to 5.5 is reported only at an
\* identifier that is equal to another identifier in the first 63
\* characters when the standard is c99, and in the first 31 otherwise.
C20_SignificantCharacters ==
    \A i \in 1..Len(errors) :
        \E a, b \in Identifiers(data) :
            /\ a.token = errors[i].token
            /\ Collide(a, b, IF data.standards = Some([c |-> <<"c", "9", "9">>])
                             THEN 63 ELSE 31)

\* ---------------------------------------------------------------------
\* The rules that depend on the platform's widths: 12.2 and 12.4
\* ---------------------------------------------------------------------

\* a Python int of any size: hi * 65536 + lo with lo in 0..65535
Wide(hi, lo) == [hi |-> hi, lo |-> lo]

\* a < b for two such ints
WideLess(a, b) == a.hi < b.hi \/ (a.hi = b.hi /\ a.lo < b.lo)

\* bitsOfEssentialType(expr) with typeBits = bits: an int, or None when the
\* entry of typeBits is None
bitsOfEssentialType(tokens, expr, bits) ==
    LET type == getEssentialType(tokens, expr)
    IN  IF type = None THEN Some(0)
        ELSE IF type[1] = kw_char THEN bits["CHAR"]
        ELSE IF type[1] = kw_short THEN bits["SHORT"]
        ELSE IF type[1] = kw_int THEN bits["INT"]
        ELSE IF type[1] = kw_long THEN bits["LONG"]
        ELSE IF type[1] = kw_long_long THEN bits["LONG_LONG"]
        ELSE Some(0)

\* isConstantExpression(expr)
RECURSIVE isConstantExpression(_, _)
isConstantExpression(tokens, expr) ==
    LET tok == tokens[expr]
    IN  IF tok.isNumber THEN TRUE
        ELSE IF tok.isName THEN FALSE
        ELSE IF simpleMatch(tokens, PreviousOf(tokens, expr), <<"s", "i", "z", "e", "o", "f", " ", "(">>)
             THEN TRUE
        ELSE IF tok.astOperand1 # 0 /\ ~isConstantExpression(tokens, tok.astOperand1)
             THEN FALSE
        ELSE IF tok.astOperand2 # 0 /\ ~isConstantExpression(tokens, tok.astOperand2)
             THEN FALSE
        ELSE TRUE

\* isUnsignedInt(expr)
RECURSIVE isUnsignedInt(_, _)
isUnsignedInt(tokens, expr) ==
    IF expr = 0 THEN FALSE
    ELSE LET tok == tokens[expr]
         IN  IF tok.isNumber THEN InList("u", tok.str) \/ InList("U", tok.str)
             ELSE IF tok.str \in {<<"+">>, <<"-">>, <<"*">>, <<"/">>, <<"%">>}
                  THEN isUnsignedInt(tokens, tok.astOperand1)
                       \/ isUnsignedInt(tokens, tok.astOperand2)
             ELSE FALSE

\* the greatest of 0 and the intvalues of the values
MaxVal(values) ==
    LET all == {Wide(0, 0)} \cup {values[i] : i \in 1..Len(values)}
    IN  CHOOSE m \in all : \A v \in all : ~WideLess(m, v)

\* the body of the loop of misra_12_2 for one token, with typeBits = bits
misra_12_2_token(tokens, t, bits) ==
    LET tok == tokens[t]
    IN  IF tok.str \notin {<<"<", "<">>, <<">", ">">>} THEN "none"
        ELSE IF tok.astOperand2 = 0 \/ tokens[tok.astOperand2].values = <<>> THEN "none"
        ELSE LET maxval == MaxVal(tokens[tok.astOperand2].values)
                 sz == bitsOfEssentialType(tokens, tok.astOperand1, bits)
             IN  IF maxval = Wide(0, 0) THEN "none"
                 ELSE IF sz = None THEN "fault"
                 ELSE IF sz[1] <= 0 THEN "none"
                 ELSE IF ~WideLess(maxval, Wide(0, sz[1])) THEN "report"
                 ELSE "none"

\* misra_12_4(data) with typeBits = bits: the tokens reportError is called
\* with, in order
misra_12_4(tokens, bits) ==
    IF bits["INT"] \notin {Some(16), Some(32)} THEN <<>>
    ELSE LET max_uint == IF bits["INT"] = Some(16) THEN Wide(0, 65535)
                         ELSE Wide(65535, 65535)
         IN  SelectSeq(UpTo(Len(tokens)),
                       LAMBDA t :
                           /\ tokens[t].values # <<>>
                           /\ isConstantExpression(tokens, t)
                           /\ isUnsignedInt(tokens, t)
                           /\ \E i \in 1..Len(tokens[t].values) :
                                  \/ WideLess(tokens[t].values[i], Wide(0, 0))
                                  \/ WideLess(max_uint, tokens[t].values[i]))

\* a token of data.tokenlist that is no number and has no known values
Valueless(tok) == tok @@ [isNumber |-> FALSE, values |-> <<>>]

\* a number with its value
Number(text, value) ==
    AstTok(text, FALSE, 0, 0, FALSE, None, ValueType(kw_int, kw_signed, 0))
        @@ [isNumber |-> TRUE, values |-> <<value>>]

\* the decimal digits of a shift amount below 100
Decimal(n) ==
    IF n < 10 THEN <<Digits[n + 1]>> ELSE <<Digits[(n \div 10) + 1], Digits[(n % 10) + 1]>>

\* the amounts of the shifts of the sources
ShiftAmounts == {0, 7, 8, 16, 32, 64, 70}

\* 'Ta a ; ... a << n ;'
SrcShift(Ta, op, n) ==
    LET d == Declarations(T_int, Ta, T_int, T_int)
        k == Len(d.tokens)
    IN  [t \in 1..k |-> Valueless(d.tokens[t])]
        \o <<Valueless(d.a), Valueless(BinOp(op, k + 1, k + 3, ResultVT(Ta, T_int))),
             Number(Decimal(n), Wide(0, n)), Valueless(Punct(<<";">>))>>

\* 'Ta a ; Tb b ; ... a + b << n ;'
SrcSumShift(Ta, Tb, n) ==
    LET d == Declarations(T_int, Ta, Tb, T_int)
        k == Len(d.tokens)
    IN  [t \in 1..k |-> Valueless(d.tokens[t])]
        \o <<Valueless(d.a), Valueless(BinOp(<<"+">>, k + 1, k + 3, ResultVT(Ta, Tb))),
             Valueless(d.b),
             Valueless(BinOp(<<"<", "<">>, k + 2, k + 5, ResultVT(Ta, Tb))),
             Number(Decimal(n), Wide(0, n)), Valueless(Punct(<<";">>))>>

\* 'x op y ;' for two numbers, with the values of the three expressions
SrcConstant(x, vx, op, y, vy, value) ==
    <<Number(x, vx),
      BinOp(op, 1, 3, ValueType(kw_int, kw_unsigned, 0))
          @@ [isNumber |-> FALSE, values |-> <<value>>],
      Number(y, vy), Valueless(Punct(<<";">>))>>

\* the sources of the rules 12.1, 12.2 and 12.4
WidthSources ==
    {SrcShift(Ta, op, n) : Ta \in DeclTypes, op \in {<<"<", "<">>, <<">", ">">>},
                           n \in ShiftAmounts}
    \cup {SrcSumShift(Ta, Tb, n) : Ta \in {T_int, T_long}, Tb \in {T_int, T_long},
                                   n \in ShiftAmounts}
    \cup { SrcConstant(<<"0", "u">>, Wide(0, 0), <<"-">>, <<"1", "u">>, Wide(0, 1),
                       Wide(-1, 65535)),
           SrcConstant(<<"6", "5", "5", "3", "5", "u">>, Wide(0, 65535), <<"+">>,
                       <<"1", "U">>, Wide(0, 1), Wide(1, 0)),
           SrcConstant(<<"4", "2", "9", "4", "9", "6", "7", "2", "9", "5", "u">>,
                       Wide(65535, 65535), <<"+">>, <<"1", "u">>, Wide(0, 1),
                       Wide(65536, 0)),
           SrcConstant(<<"1", "u">>, Wide(0, 1), <<"+">>, <<"1", "u">>, Wide(0, 1),
                       Wide(0, 2)),
           SrcConstant(<<"6", "5", "5", "3", "5">>, Wide(0, 65535), <<"+">>,
                       <<"1">>, Wide(0, 1), Wide(1, 0)) }

\* the widths of int of the platforms of the sources
IntBits == {8, 16, 32, 64}

\* data.platform
WidthPlatforms ==
    {[char_bit |-> 8, short_bit |-> 16, int_bit |-> i, long_bit |-> l,
      long_long_bit |-> 64, pointer_bit |-> l] : i \in IntBits, l \in {32, 64}}

\* parseDump has read a dump of one configuration
InitWidth ==
    /\ added = SuppressionListCalls(AllRulesBut({1201, 1202, 1204}))
    /\ suppressedRules = AddAll(<<>>, added)
    /\ filePrefix = None
    /\ ruleTexts = <<>>
    /\ suppressionStats = <<>>
    /\ verify_expected = <<>>
    /\ verify_actual = <<>>
    /\ violations = <<>>
    /\ typeBits = TypeBitsInit
    /\ reported = <<>>
    /\ printed = <<>>
    /\ exitCode = 0
    /\ data \in {[platform |-> p, rawTokens |-> <<>>] : p \in WidthPlatforms}
    /\ cfgNumber = 0
    /\ checkIdx = 0
    /\ found = <<>>
    /\ seenTokens = <<>>
    /\ verify = FALSE
    /\ dumpfiles = <<>>
    /\ pc = "typeBits"
    /\ tokenlist \in WidthSources
    /\ rawTokens = <<>>
    /\ token = 0
    /\ state = STATE_NONE
    /\ end_swtich_token = None
    /\ executed = <<>>
    /\ runs = <<>>
    /\ essential = <<>>
    /\ returned = <<>>
    /\ ifStack = <<>>
    /\ frames = <<>>
    /\ visited = {}
    /\ errors = <<>>

\* parseDump writes the widths of the platform to typeBits and comes to the
\* first configuration
SetTypeBits ==
    /\ pc = "typeBits"
    /\ typeBits' = PlatformBits(typeBits, data.platform)
    /\ cfgNumber' = cfgNumber + 1
    /\ pc' = "width_12_1"
    /\ UNCHANGED <<regVars, verify, ruleTexts, suppressionStats, verify_expected,
                   verify_actual, violations, reported, printed, exitCode,
                   dumpfiles, data, checkIdx, found, seenTokens, ruleVars>>

\* misra_12_1(data), followed by misra_12_2
Width_12_1 ==
    /\ pc = "width_12_1"
    /\ AfterCheck([errors |-> ErrorsOf([t \in 1..Len(tokenlist) |->
                                           misra_12_1_token(tokenlist, t)], 12, 1),
                   fault |-> FALSE], "width_12_2")

\* misra_12_2(data)
Width_12_2 ==
    /\ pc = "width_12_2"
    /\ AfterCheck(RunOverTokens([t \in 1..Len(tokenlist) |->
                                    misra_12_2_token(tokenlist, t, typeBits)], 12, 2),
                  "width_12_4")

\* misra_12_4(data)
Width_12_4 ==
    /\ pc = "width_12_4"
    /\ LET at == misra_12_4(tokenlist, typeBits)
       IN  AfterCheck([errors |-> [i \in 1..Len(at) |->
                                      [token |-> at[i], num1 |-> 12, num2 |-> 4]],
                       fault |-> FALSE], "done")

NextWidth ==
    \/ SetTypeBits
    \/ Width_12_1
    \/ Width_12_2
    \/ Width_12_4

SpecWidth == InitWidth /\ [][NextWidth]_vars

\* ---------------------------------------------------------------------
\* Claims about the widths of the platform (SpecWidth)
\* ---------------------------------------------------------------------

\* typeBits is written and the width of int is neither 16 nor 32
UnsupportedWidth == typeBits["INT"] # None /\ typeBits["INT"][1] \notin {16, 32}

\* with an unsupported width no check function has ended in a fault
UnsupportedWidthNoFault == UnsupportedWidth => pc # "fault"

\* with an unsupported width rule 12.4 reports nothing
UnsupportedWidthNo_12_4 ==
    UnsupportedWidth => \A i \in 1..Len(errors) : ~(errors[i].num1 = 12 /\ errors[i].num2 = 4)

\* rule 12.1 reports the same whatever the widths are
OtherRulesAsSupported ==
    pc \in {"width_12_2", "width_12_4", "done"} =>
        SelectSeq(errors, LAMBDA e : e.num2 = 1)
            = ErrorsOf([t \in 1..Len(tokenlist) |-> misra_12_1_token(tokenlist, t)], 12, 1)

\* C21 as claimed: when the width of int is neither 16 nor 32 bits, rules
\* 12.2 and 12.4 report nothing, no check function ends in a fault, and
\* rule 12.1 reports what it reports with a supported width.
C21_UnsupportedWidthAbstains ==
    /\ UnsupportedWidthNoFault
    /\ UnsupportedWidthNo_12_4
    /\ UnsupportedWidth =>
           \A i \in 1..Len(errors) : ~(errors[i].num1 = 12 /\ errors[i].num2 = 2)
    /\ OtherRulesAsSupported

\* ---------------------------------------------------------------------
\* Claims about the severity buckets (Spec)
\* ---------------------------------------------------------------------

\* the severity the rule texts give the rule, or Undefined
CatalogSeverity(ruleNum) ==
    IF ruleNum \in DOMAIN ruleTexts /\ ruleTexts[ruleNum].misra_severity # ""
    THEN ruleTexts[ruleNum].misra_severity ELSE "Undefined"

\* the entries of the severity buckets: a bucket and a position in it
BucketEntries ==
    UNION {{<<sev, i>> : i \in 1..Len(violations[sev])} : sev \in DOMAIN violations}

\* the violations given to the reporting sink with that severity, in order
EmittedAs(sev) ==
    LET of == SelectSeq(reported, LAMBDA r : r.extra = sev)
    IN  [k \in 1..Len(of) |-> <<"misra-">> \o of[k].errorId]

\* C22: every violation given to the reporting sink is in exactly one
\* severity bucket, the one of the severity the rule texts give its rule or
\* Undefined; each bucket holds the violations emitted with its severity in
\* the order of their emission and nothing else, so that suppressed
\* violations and those of verify mode are in no bucket and the sizes of
\* the buckets add up to the number of violations emitted so far.
C22_BucketsHoldEmitted ==
    /\ DOMAIN violations = {reported[k].extra : k \in 1..Len(reported)}
    /\ \A sev \in DOMAIN violations : violations[sev] = EmittedAs(sev)
    /\ Cardinality(BucketEntries) = Len(reported)
    /\ \A k \in 1..Len(reported) :
           \E i \in Unsuppressed :
               /\ reported[k].errorId = ErrorIdOf(found[i])
               /\ reported[k].extra = CatalogSeverity(found[i].num1 * 100 + found[i].num2)
    /\ verify => violations = <<>>

\* a run in normal mode has emitted violations into two severity buckets,
\* one of them holding two
C22_Witness ==
    /\ ~verify
    /\ Cardinality(DOMAIN violations) = 2
    /\ \E sev \in DOMAIN violations : Len(violations[sev]) = 2

\* ---------------------------------------------------------------------
\* Claims about the blocks in the scan of rule 16.3 (SpecFall)
\* ---------------------------------------------------------------------

\* the last token object before t that is no comment (0 when there is none)
CodeBefore(t) ==
    LET code == {i \in 1..(t - 1) : FirstTwo(rawTokens[i].str) \notin {<<"/", "/">>, <<"/", "*">>}}
    IN  IF code = {} THEN 0 ELSE CHOOSE i \in code : \A j \in code : j <= i

\* the token before t that is no comment ends a statement or is a brace
AfterTerminator(t) ==
    /\ CodeBefore(t) # 0
    /\ rawTokens[CodeBefore(t)].str \in {<<";">>, <<":">>, <<"{">>, <<"}">>}

\* the number of '{' less the number of '}' among the tokens a..b
Braces(a, b) ==
    Cardinality({i \in a..b : rawTokens[i].str = <<"{">>})
        - Cardinality({i \in a..b : rawTokens[i].str = <<"}">>})

\* the opening brace of the block that the '}' at t closes (0 when there is
\* none)
BlockStart(t) ==
    LET starts == {o \in 1..(t - 1) : rawTokens[o].str = <<"{">> /\ Braces(o + 1, t - 1) = 0}
    IN  IF starts = {} THEN 0 ELSE CHOOSE o \in starts : \A p \in starts : p <= o

\* the loop has met the 'case' or 'default' at c right after the closing
\* brace of a block whose opening brace follows a token that is no
\* statement terminator
AfterConditionalBlock(c) ==
    /\ c > 1
    /\ c < token
    /\ rawTokens[c].str \in {kw_case, kw_default}
    /\ rawTokens[c - 1].str = <<"}">>
    /\ BlockStart(c - 1) # 0
    /\ ~AfterTerminator(BlockStart(c - 1))

\* C23 as claimed: an opening brace leaves the scan in the OK state only
\* when the token before it that is no comment is one of ; : { }, and a
\* 'case' or 'default' right after an opening brace that follows another
\* token is reported.
C23_OkOnlyAfterTerminator ==
    /\ (token > 1 /\ rawTokens[token - 1].str = <<"{">> /\ state = STATE_OK)
           => AfterTerminator(token - 1)
    /\ \A c \in 2..(token - 1) :
           (/\ rawTokens[c].str \in {kw_case, kw_default}
            /\ rawTokens[c - 1].str = <<"{">>
            /\ ~AfterTerminator(c - 1)) => ReportedAt(c)

\* C23: every opening brace leaves the scan in the OK state; a closing
\* brace leaves it in the OK state only when the token before the opening
\* brace of its block that is no comment is one of ; : { }; and a 'case' or
\* 'default' right after the closing brace of a block that follows another
\* token (the ')' of an if or a loop) is reported.
C23_OkKeptOnlyByUnconditionalBlock ==
    /\ (token > 1 /\ rawTokens[token - 1].str = <<"{">>) => state = STATE_OK
    /\ (token > 1 /\ rawTokens[token - 1].str = <<"}">> /\ state = STATE_OK)
           => /\ BlockStart(token - 1) # 0
              /\ AfterTerminator(BlockStart(token - 1))
    /\ \A c \in 2..(token - 1) : AfterConditionalBlock(c) => ReportedAt(c)

\* the scan has reported the 'case' that follows the block of an if whose
\* last statement is a break
C23_Witness ==
    \E c \in 2..(token - 1) :
        /\ AfterConditionalBlock(c)
        /\ rawTokens[CodeBefore(BlockStart(c - 1))].str = <<")">>
        /\ rawTokens[c - 2].str = <<";">>
        /\ rawTokens[c - 3].str = kw_break
        /\ ReportedAt(c)

\* ---------------------------------------------------------------------
\* getPrecedence as a function of its argument (SpecPrec)
\* ---------------------------------------------------------------------

\* the operators of the sources, each with Token.isAssignmentOp: those
\* getPrecedence names, the assignments, and the operators of a subscript,
\* a call and a member access
PrecOperators ==
    {[str |-> op, isAssignmentOp |-> FALSE] :
        op \in UNION {CGrammar[l] : l \in 1..Len(CGrammar)}
               \cup {<<"?">>, <<":">>, <<",">>, <<"[">>, <<"(">>, <<".">>}}
    \cup {[str |-> op, isAssignmentOp |-> TRUE] :
            op \in {<<"=">>, <<"+", "=">>, <<"<", "<", "=">>}}

\* the token of an operator between the tokens a and b, with those of the
\* two that are its operands
OperatorTok(op, a, b, has1, has2) ==
    AstTok(op.str, FALSE, IF has1 THEN a ELSE 0, IF has2 THEN b ELSE 0,
           op.isAssignmentOp, None, None)

\* 'a op1 b ; c op2 d ;'
SrcTwoOperators(op1, has1, has2, op2) ==
    << AstTok(<<"a">>, TRUE, 0, 0, FALSE, None, None), OperatorTok(op1, 1, 3, has1, has2),
       AstTok(<<"b">>, TRUE, 0, 0, FALSE, None, None), Punct(<<";">>),
       AstTok(<<"c">>, TRUE, 0, 0, FALSE, None, None), OperatorTok(op2, 5, 7, TRUE, TRUE),
       AstTok(<<"d">>, TRUE, 0, 0, FALSE, None, None), Punct(<<";">>) >>

PrecSources ==
    {SrcTwoOperators(op1, has1, has2, op2) :
        op1 \in PrecOperators, has1 \in BOOLEAN, has2 \in BOOLEAN, op2 \in PrecOperators}

\* getPrecedence is about to be called with None and then with every token
\* of data.tokenlist
InitPrec ==
    /\ InitInDump({1201})
    /\ pc = "getPrecedence"
    /\ tokenlist \in PrecSources
    /\ data = [tokenlist |-> tokenlist, rawTokens |-> <<>>]
    /\ rawTokens = <<>>
    /\ token = 0
    /\ state = STATE_NONE
    /\ end_swtich_token = None
    /\ executed = <<>>
    /\ runs = <<>>
    /\ essential = <<>>
    /\ returned = <<>>
    /\ ifStack = <<>>
    /\ frames = <<>>
    /\ visited = {}
    /\ errors = <<>>

\* getPrecedence(expr) for expr = token
GetPrecedence ==
    /\ pc = "getPrecedence"
    /\ token <= Len(tokenlist)
    /\ returned' = Append(returned, getPrecedence(tokenlist, token))
    /\ token' = token + 1
    /\ UNCHANGED <<regVars, runVars, rawTokens, state, end_swtich_token, tokenlist,
                   executed, runs, essential, ifStack, frames, visited,
                   errors>>

\* every call is made
GetPrecedenceDone ==
    /\ pc = "getPrecedence"
    /\ token > Len(tokenlist)
    /\ pc' = "done"
    /\ UNCHANGED <<regVars, verify, ruleTexts, suppressionStats, verify_expected,
                   verify_actual, violations, typeBits, reported, printed, exitCode,
                   dumpfiles, data, cfgNumber, checkIdx, found, seenTokens, ruleVars>>

NextPrec ==
    \/ GetPrecedence
    \/ GetPrecedenceDone

SpecPrec == InitPrec /\ [][NextPrec]_vars

\* ---------------------------------------------------------------------
\* Claims about getPrecedence (SpecPrec)
\* ---------------------------------------------------------------------

\* the token objects getPrecedence was called with that have both operands
CalledWithOperands ==
    {t \in 1..(Len(returned) - 1) :
        tokenlist[t].astOperand1 # 0 /\ tokenlist[t].astOperand2 # 0}

\* what getPrecedence returned for token object t (0: for None)
PrecedenceOf(t) == returned[t + 1]

\* the operator is one the grammar of C gives a place among the binary,
\* conditional, assignment and comma operators
InGrammar(tok) ==
    \/ \E l \in 1..Len(CGrammar) : tok.str \in CGrammar[l]
    \/ tok.str \in {<<"?">>, <<":">>, <<",">>}
    \/ tok.isAssignmentOp

\* the bucket of the operator: 0 for the comma, 1 for the assignments, 2
\* for ? and :, and 3 to 12 for the binary operators from || to * / %
GrammarBucket(tok) ==
    IF \E l \in 1..Len(CGrammar) : tok.str \in CGrammar[l] THEN CLevel(tok.str) + 2
    ELSE IF tok.str \in {<<"?">>, <<":">>} THEN 2
    ELSE IF tok.isAssignmentOp THEN 1
    ELSE 0

\* C24 as claimed: getPrecedence gives every token with both operands the
\* bucket of its operator, from 12 for * / % down to 0 for the comma, and
\* 16 to a missing token and to a token that lacks an operand.
C24_EveryOperatorInBucket ==
    \A t \in 0..(Len(returned) - 1) :
        IF t \in CalledWithOperands
        THEN PrecedenceOf(t) = GrammarBucket(tokenlist[t]) /\ PrecedenceOf(t) \in 0..12
        ELSE PrecedenceOf(t) = 16

\* C24: getPrecedence gives a token with both operands the bucket of its
\* operator when it is a binary operator of the grammar, ? or :, an
\* assignment or the comma, and -1 when it is any other token (the '[' of
\* a subscript, the '(' of a call, the '.' of a member access); it gives
\* 16 to a missing token and to a token that lacks an operand; and of two
\* operators the one that binds tighter has the greater bucket.
C24_GrammarOperatorInBucket ==
    /\ \A t \in 0..(Len(returned) - 1) :
           IF t \in CalledWithOperands
           THEN IF InGrammar(tokenlist[t])
                THEN PrecedenceOf(t) = GrammarBucket(tokenlist[t]) /\ PrecedenceOf(t) \in 0..12
                ELSE PrecedenceOf(t) = -1
           ELSE PrecedenceOf(t) = 16
    /\ \A t, u \in CalledWithOperands :
           (/\ \E l \in 1..Len(CGrammar) : tokenlist[t].str \in CGrammar[l]
            /\ \E l \in 1..Len(CGrammar) : tokenlist[u].str \in CGrammar[l]
            /\ CLevel(tokenlist[t].str) > CLevel(tokenlist[u].str))
           => PrecedenceOf(t) > PrecedenceOf(u)

\* getPrecedence has returned 16 for None and for 'a', -1 for the '[' of a
\* subscript and 8 for '==', both with two operands
C24_Witness ==
    /\ pc = "done"
    /\ PrecedenceOf(0) = 16
    /\ PrecedenceOf(1) = 16
    /\ \E t, u \in CalledWithOperands :
           /\ tokenlist[t].str = <<"[">> /\ PrecedenceOf(t) = -1
           /\ tokenlist[u].str = <<"=", "=">> /\ PrecedenceOf(u) = 8

\* ---------------------------------------------------------------------
\* findRawLink as a function of its argument (SpecLink)
\* ---------------------------------------------------------------------

\* the most tokens of a raw token stream of the sources
MaxRaw == 6

\* the texts of the well nested streams of at most n levels of brackets
RECURSIVE Nested(_)
Nested(n) ==
    IF n = 0 THEN {<<>>, <<<<"x">>>>}
    ELSE LET inner == Nested(n - 1)
         IN  inner
             \cup {<<<<Openers[k]>>>> \o w \o <<<<Closers[k]>>>> :
                     k \in 1..Len(Openers), w \in {v \in inner : Len(v) + 2 <= MaxRaw}}
             \cup {u \o v : u \in inner, v \in {w \in inner : Len(w) <= MaxRaw \div 2}}

\* the streams given to findRawLink: the well nested ones, and those with
\* their first or their last token cut off
LinkSources ==
    LET whole == {w \in Nested(3) : Len(w) >= 1 /\ Len(w) <= MaxRaw}
    IN  whole \cup {Tail(w) : w \in {v \in whole : Len(v) >= 2}}
              \cup {SubSeq(w, 1, Len(w) - 1) : w \in {v \in whole : Len(v) >= 2}}

\* findRawLink is about to be called with every token of the stream
InitLink ==
    /\ InitInDump({1603})
    /\ pc = "findRawLink"
    /\ rawTokens \in {RawTokensOf(src) : src \in LinkSources}
    /\ data = [rawTokens |-> rawTokens]
    /\ token = 1
    /\ state = STATE_NONE
    /\ end_swtich_token = None
    /\ tokenlist = <<>>
    /\ executed = <<>>
    /\ runs = <<>>
    /\ essential = <<>>
    /\ returned = <<>>
    /\ ifStack = <<>>
    /\ frames = <<>>
    /\ visited = {}
    /\ errors = <<>>

\* findRawLink(token), and findRawLink of what it returned
FindRawLink ==
    /\ pc = "findRawLink"
    /\ token <= Len(rawTokens)
    /\ LET link == findRawLink(rawTokens, token)
       IN  returned' = Append(returned,
                              [link |-> link,
                               back |-> IF link = None THEN None
                                        ELSE findRawLink(rawTokens, link[1])])
    /\ token' = token + 1
    /\ UNCHANGED <<regVars, runVars, rawTokens, state, end_swtich_token, tokenlist,
                   executed, runs, essential, ifStack, frames, visited,
                   errors>>

\* every call is made
FindRawLinkDone ==
    /\ pc = "findRawLink"
    /\ token > Len(rawTokens)
    /\ pc' = "done"
    /\ UNCHANGED <<regVars, verify, ruleTexts, suppressionStats, verify_expected,
                   verify_actual, violations, typeBits, reported, printed, exitCode,
                   dumpfiles, data, cfgNumber, checkIdx, found, seenTokens, ruleVars>>

NextLink ==
    \/ FindRawLink
    \/ FindRawLinkDone

SpecLink == InitLink /\ [][NextLink]_vars

\* ---------------------------------------------------------------------
\* Claims about findRawLink (SpecLink)
\* ---------------------------------------------------------------------

\* the kind of the bracket at t: 1 for braces, 2 for parentheses, 3 for
\* square brackets, and 0 for a token that is no bracket
KindOf(t) ==
    IF \E k \in 1..3 : rawTokens[t].str \in {<<Openers[k]>>, <<Closers[k]>>}
    THEN CHOOSE k \in 1..3 : rawTokens[t].str \in {<<Openers[k]>>, <<Closers[k]>>}
    ELSE 0

IsOpener(t) == \E k \in 1..3 : rawTokens[t].str = <<Openers[k]>>

IsCloser(t) == \E k \in 1..3 : rawTokens[t].str = <<Closers[k]>>

\* the number of brackets of any kind that are open before the token at t
DepthBefore(t) ==
    Cardinality({i \in 1..(t - 1) : IsOpener(i)})
        - Cardinality({i \in 1..(t - 1) : IsCloser(i)})

\* the bracket that matches the one at t: the nearest bracket of the other
\* direction and of the same kind at the same nesting depth, with no
\* bracket closing that depth in between; 0 when there is none
Partner(t) ==
    LET after == {c \in (t + 1)..Len(rawTokens) :
                     IsCloser(c) /\ DepthBefore(c) = DepthBefore(t) + 1}
        before == {o \in 1..(t - 1) :
                      IsOpener(o) /\ DepthBefore(o) + 1 = DepthBefore(t)}
        c == CHOOSE c \in after : \A d \in after : c <= d
        o == CHOOSE o \in before : \A p \in before : p <= o
    IN  IF IsOpener(t) /\ after # {} /\ KindOf(c) = KindOf(t) THEN c
        ELSE IF IsCloser(t) /\ before # {} /\ KindOf(o) = KindOf(t)
                /\ \A i \in (o + 1)..(t - 1) : DepthBefore(i) > DepthBefore(o)
        THEN o
        ELSE 0

\* the brackets of the stream are well nested
WellNested == \A t \in 1..Len(rawTokens) : KindOf(t) # 0 => Partner(t) # 0

\* C25: on a well nested stream findRawLink of a bracket is the bracket of
\* the other direction and the same kind at the same nesting depth, and
\* findRawLink of that one is the first again; on every stream
\* findRawLink is None for a token that is no bracket and for a bracket
\* without a match.
C25_LinkIsPartner ==
    \A t \in 1..Len(returned) :
        /\ (WellNested /\ KindOf(t) # 0)
               => /\ returned[t].link = Some(Partner(t))
                  /\ returned[t].back = Some(t)
        /\ KindOf(t) = 0 => returned[t].link = None
        /\ (KindOf(t) # 0 /\ Partner(t) = 0) => returned[t].link = None

\* findRawLink was called with every token of '{ ( ) { } }': the outer
\* braces are linked to each other over the nested brackets
C25_Witness ==
    /\ pc = "done"
    /\ [t \in 1..Len(rawTokens) |-> rawTokens[t].str]
           = <<<<"{">>, <<"(">>, <<")">>, <<"{">>, <<"}">>, <<"}">>>>
    /\ returned[1].link = Some(6)
    /\ returned[6].link = Some(1)
    /\ returned[4].back = Some(4)


\* ------------------------------------------------------------------------
\* C26: the widths of the platform and the rule checks of one dump

\* typeBits holds the six widths of platform p
HoldsPlatform(bits, p) ==
    /\ bits["CHAR"] = Some(p.char_bit)
    /\ bits["SHORT"] = Some(p.short_bit)
    /\ bits["INT"] = Some(p.int_bit)
    /\ bits["LONG"] = Some(p.long_bit)
    /\ bits["LONG_LONG"] = Some(p.long_long_bit)
    /\ bits["POINTER"] = Some(p.pointer_bit)

\* C26: whenever a rule check of a dump is about to be executed, typeBits
\* holds all six widths of the platform of that dump, and no step taken
\* while the rule checks of a dump are executed changes typeBits.
C26_WidthsBeforeChecks ==
    /\ [](pc = "checks" => data # None /\ HoldsPlatform(typeBits, data.platform))
    /\ [][pc = "checks" => typeBits' = typeBits]_vars

\* the rule checks of a second dump are running, the dump was made for a
\* platform with other widths than the first, and typeBits holds the widths
\* of the second
C26_Witness ==
    /\ pc = "checks"
    /\ Len(runs) = 2
    /\ checkIdx > 1
    /\ runs[1].dump.platform = Platform
    /\ data.platform = Platform16
    /\ typeBits["INT"] = Some(16)
    /\ typeBits["POINTER"] = Some(16)


\* ------------------------------------------------------------------------
\* C27: the suppression registry and the rule checks of a run

\* a rule check of some dump of the run has been called, or the first one
\* is about to be
RuleExecutionBegun ==
    \E i \in 1..Len(runs) : NextCall(1, 0, runs[i].dump.configurations) # <<0, 0>>

\* C27: from the first rule check to the end of the run, over all dumps
\* processed, no step adds, removes or changes an entry of suppressedRules.
C27_RegistryOnlyRead ==
    [][RuleExecutionBegun => suppressedRules' = suppressedRules]_vars


\* while the rule checks of one dump are executed no step changes
\* suppressedRules: the rule checks, lookups and reports only read it
RuleChecksOnlyRead ==
    [][pc = "checks" => suppressedRules' = suppressedRules]_vars


\* ------------------------------------------------------------------------
\* Rule 20.14: #else, #elif and #endif in the file of their #if

\* a directive of data.directives; linenr tells the directives of a list
\* apart
Directive(text, file, linenr) == [str |-> text, file |-> file, linenr |-> linenr]

\* the texts of directives
DirIf == <<"#", "i", "f", " ", "A">>
DirIfdef == <<"#", "i", "f", "d", "e", "f", " ", "A">>
DirIfndef == <<"#", "i", "f", "n", "d", "e", "f", " ", "A">>
DirElse == <<"#", "e", "l", "s", "e">>
DirElif == <<"#", "e", "l", "i", "f", " ", "B">>
DirEndif == <<"#", "e", "n", "d", "i", "f">>
DirDefine == <<"#", "d", "e", "f", "i", "n", "e", " ", "X">>

\* the longest data.directives
MaxDirectives == 5

\* the files of the directives: a source file and a header it includes
DirFiles == {<<"a">>, <<"h">>}

\* the lists of at most n directives with texts of strs, numbered in the
\* order of the list
RECURSIVE DirectiveLists(_, _)
DirectiveLists(strs, n) ==
    IF n = 0 THEN {<<>>}
    ELSE LET shorter == DirectiveLists(strs, n - 1)
         IN  shorter \cup
             {Append(l, Directive(s, f, Len(l) + 1)) :
                 l \in {k \in shorter : Len(k) = n - 1}, s \in strs, f \in DirFiles}

\* data.directives: every list of two directives, and the longer lists of
\* #if, #else and #endif and of #ifndef, #elif and #endif
DirectiveSources ==
    DirectiveLists({DirIf, DirIfdef, DirIfndef, DirElse, DirElif, DirEndif, DirDefine}, 2)
    \cup DirectiveLists({DirIf, DirElse, DirEndif}, MaxDirectives)
    \cup DirectiveLists({DirIfndef, DirElif, DirEndif}, MaxDirectives - 1)

\* the body of the loop of misra_20_14 for one directive: ifStack after it
\* and whether reportError is called
misra_20_14_directive(stack, directive) ==
    IF \/ startswith(directive.str, <<"#", "i", "f", " ">>)
       \/ startswith(directive.str, <<"#", "i", "f", "d", "e", "f", " ">>)
       \/ startswith(directive.str, <<"#", "i", "f", "n", "d", "e", "f", " ">>)
    THEN [ifStack |-> Append(stack, directive), report |-> FALSE]
    ELSE IF \/ directive.str = <<"#", "e", "l", "s", "e">>
            \/ startswith(directive.str, <<"#", "e", "l", "i", "f", " ">>)
    THEN IF Len(stack) = 0
         THEN [ifStack |-> Append(stack, directive), report |-> TRUE]
         ELSE [ifStack |-> stack, report |-> directive.file # stack[Len(stack)].file]
    ELSE IF directive.str = <<"#", "e", "n", "d", "i", "f">>
    THEN IF Len(stack) = 0
         THEN [ifStack |-> stack, report |-> TRUE]
         ELSE IF directive.file # stack[Len(stack)].file
         THEN [ifStack |-> SubSeq(stack, 1, Len(stack) - 1), report |-> TRUE]
         ELSE [ifStack |-> stack, report |-> FALSE]
    ELSE [ifStack |-> stack, report |-> FALSE]

\* parseDump is about to call misra_20_14(data)
InitDirective ==
    /\ InitInDump({2014})
    /\ data \in {[directives |-> l] : l \in DirectiveSources}
    /\ pc = "misra_20_14"
    /\ tokenlist = <<>>
    /\ rawTokens = <<>>
    /\ token = 0
    /\ state = STATE_NONE
    /\ end_swtich_token = None
    /\ executed = <<>>
    /\ runs = <<>>
    /\ essential = <<>>
    /\ returned = <<>>
    /\ ifStack = <<>>
    /\ frames = <<>>
    /\ visited = {}
    /\ errors = <<>>

\* one turn of the loop of misra_20_14; token counts the directives done
Misra_20_14_Directive ==
    /\ pc = "misra_20_14"
    /\ token < Len(data.directives)
    /\ LET directive == data.directives[token + 1]
           after == misra_20_14_directive(ifStack, directive)
       IN  /\ ifStack' = after.ifStack
           /\ IF after.report
              THEN Reporting(<<[token |-> token + 1, num1 |-> 20, num2 |-> 14]>>,
                             <<directive>>)
              ELSE Reporting(<<>>, <<>>)
    /\ token' = token + 1
    /\ UNCHANGED <<regVars, verify, ruleTexts, verify_expected, typeBits, printed, exitCode,
                   dumpfiles, data, cfgNumber, checkIdx, pc, found, seenTokens,
                   rawTokens, state, end_swtich_token, tokenlist,
                   executed, runs, essential, returned, frames, visited>>

\* the loop of misra_20_14 ends and the function returns
Misra_20_14_Return ==
    /\ pc = "misra_20_14"
    /\ token = Len(data.directives)
    /\ pc' = "done"
    /\ UNCHANGED <<regVars, verify, ruleTexts, suppressionStats, verify_expected,
                   verify_actual, violations, typeBits, reported, printed, exitCode,
                   dumpfiles, data, cfgNumber, checkIdx, found, seenTokens, ruleVars>>

NextDirective ==
    \/ Misra_20_14_Directive
    \/ Misra_20_14_Return

SpecDirective == InitDirective /\ [][NextDirective]_vars

\* ---------------------------------------------------------------------
\* Claims about rule 20.14 (SpecDirective)
\* ---------------------------------------------------------------------

IsIf(directive) == directive.str \in {DirIf, DirIfdef, DirIfndef}

IsElse(directive) == directive.str \in {DirElse, DirElif}

IsEndif(directive) == directive.str = DirEndif

\* the #if, #ifdef and #ifndef directives among the first n of a list whose
\* #endif is not among them, outermost first
RECURSIVE OpenIfs(_, _)
OpenIfs(directives, n) ==
    IF n = 0 THEN <<>>
    ELSE LET before == OpenIfs(directives, n - 1)
             d == directives[n]
         IN  IF IsIf(d) THEN Append(before, d)
             ELSE IF IsEndif(d) /\ before # <<>>
             THEN SubSeq(before, 1, Len(before) - 1)
             ELSE before

\* directive n of the list is an #else, #elif or #endif with no open #if, or
\* in another file than its #if
Misplaced(directives, n) ==
    /\ IsElse(directives[n]) \/ IsEndif(directives[n])
    /\ LET open == OpenIfs(directives, n - 1)
       IN  \/ open = <<>>
           \/ directives[n].file # open[Len(open)].file

\* C28: after every turn of the loop of misra_20_14 ifStack holds the #if,
\* #ifdef and #ifndef directives whose #endif has not been seen, so it is
\* empty after a balanced list, and the #else, #elif and #endif directives
\* reported are those with no open #if or in another file than their own #if.
C28_StackOfOpenIfs ==
    pc \in {"misra_20_14", "done"} =>
        /\ ifStack = OpenIfs(data.directives, token)
        /\ {errors[i].token : i \in 1..Len(errors)}
             = {n \in 1..token : Misplaced(data.directives, n)}


\* ------------------------------------------------------------------------
\* Rule 17.2: recursive function calls

\* KEYWORDS
KEYWORDS ==
    {<<"a", "u", "t", "o">>, <<"b", "r", "e", "a", "k">>, <<"c", "a", "s", "e">>,
     <<"c", "h", "a", "r">>, <<"c", "o", "n", "s", "t">>,
     <<"c", "o", "n", "t", "i", "n", "u", "e">>, <<"d", "e", "f", "a", "u", "l", "t">>,
     <<"d", "o">>, <<"d", "o", "u", "b", "l", "e">>, <<"e", "l", "s", "e">>,
     <<"e", "n", "u", "m">>, <<"e", "x", "t", "e", "r", "n">>,
     <<"f", "l", "o", "a", "t">>, <<"f", "o", "r">>, <<"g", "o", "t", "o">>,
     <<"i", "f">>, <<"i", "n", "t">>, <<"l", "o", "n", "g">>,
     <<"r", "e", "g", "i", "s", "t", "e", "r">>, <<"r", "e", "t", "u", "r", "n">>,
     <<"s", "h", "o", "r", "t">>, <<"s", "i", "g", "n", "e", "d">>,
     <<"s", "i", "z", "e", "o", "f">>, <<"s", "t", "a", "t", "i", "c">>,
     <<"s", "t", "r", "u", "c", "t">>, <<"s", "w", "i", "t", "c", "h">>,
     <<"t", "y", "p", "e", "d", "e", "f">>, <<"u", "n", "i", "o", "n">>,
     <<"u", "n", "s", "i", "g", "n", "e", "d">>, <<"v", "o", "i", "d">>,
     <<"v", "o", "l", "a", "t", "i", "l", "e">>, <<"w", "h", "i", "l", "e">>}

\* a token of the body of a function: function is the function a name
\* refers to (a number, or None), astOperand1 a position in the body
BodyTok(text, function, astOperand1) ==
    [str |-> text, function |-> function, astOperand1 |-> astOperand1,
     file |-> SourceFile, linenr |-> 1]

\* isFunctionCall(expr) for the token at position expr of a body
isFunctionCall(body, expr) ==
    /\ expr # 0
    /\ body[expr].str = <<"(">>
    /\ body[expr].astOperand1 # 0
    /\ body[expr].astOperand1 = expr - 1
    /\ body[body[expr].astOperand1].str \notin KEYWORDS

\* calls_map.get(direct_call, [])
CallsOf(calls_map, direct_call) == DictGet(calls_map, direct_call, <<>>)

\* how many calls of find_recursive_call can be in progress and go on: in
\* one call more the comparison of direct_call with search_for_function
\* raises RecursionError.  The interpreter raises it when more than 1000
\* calls would be in progress (sys.getrecursionlimit()); the module, main,
\* parseDump, executeCheck and misra_17_2 are five of them, and the
\* comparison counts as one.
RecursionLimit == 994

\* a call of find_recursive_call in progress: its arguments
\* search_for_function and direct_call, and the position of its loop (0: the
\* call has just been made)
Frame(search_for_function, direct_call, next) ==
    [search_for_function |-> search_for_function, direct_call |-> direct_call,
     next |-> next]

\* one step of the calls of find_recursive_call in progress, innermost
\* last.  The result is "none" while the outermost call has not returned.
find_recursive_call_step(calls_map, stack, seen) ==
    LET top == stack[Len(stack)]
        search_for_function == top.search_for_function
        calls == CallsOf(calls_map, top.direct_call)
        \* 'return True' is passed on by every caller
        ReturnTrue == [frames |-> <<>>, visited |-> seen, result |-> "True"]
        \* 'return False' lets the loop of the caller go on
        ReturnFalse ==
            IF Len(stack) = 1
            THEN [frames |-> <<>>, visited |-> seen, result |-> "False"]
            ELSE [frames |-> [SubSeq(stack, 1, Len(stack) - 1)
                                 EXCEPT ![Len(stack) - 1].next = @ + 1],
                  visited |-> seen, result |-> "none"]
    IN  IF top.next = 0
        THEN IF Len(stack) > RecursionLimit
             THEN [frames |-> stack, visited |-> seen, result |-> "RecursionError"]
             ELSE IF top.direct_call = search_for_function THEN ReturnTrue
             ELSE [frames |-> [stack EXCEPT ![Len(stack)].next = 1],
                   visited |-> seen, result |-> "none"]
        ELSE IF top.next > Len(calls) THEN ReturnFalse
        ELSE LET indirect_call == calls[top.next]
             IN  IF indirect_call = search_for_function THEN ReturnTrue
                 ELSE IF indirect_call \in seen
                 THEN [frames |-> [stack EXCEPT ![Len(stack)].next = @ + 1],
                       visited |-> seen, result |-> "none"]
                 ELSE [frames |-> Append(stack, Frame(search_for_function, indirect_call, 0)),
                       visited |-> seen \cup {indirect_call}, result |-> "none"]

\* the list 'calls' misra_17_2 makes of one body: the functions of the
\* calls met after position 'from', each once, in the order of the body
RECURSIVE CallsInBody(_, _, _)
CallsInBody(body, from, calls) ==
    IF from > Len(body) THEN calls
    ELSE IF ~isFunctionCall(body, from) THEN CallsInBody(body, from + 1, calls)
    ELSE LET f == body[body[from].astOperand1].function
         IN  IF f # None /\ ~(\E i \in 1..Len(calls) : calls[i] = f[1])
             THEN CallsInBody(body, from + 1, Append(calls, f[1]))
             ELSE CallsInBody(body, from + 1, calls)

\* the positions in data.scopes of the scopes of type 'Function'
FunctionScopes(scopes) == {s \in 1..Len(scopes) : scopes[s].type = "Function"}

\* function_calls: the calls of every function that has a scope, taken from
\* the last of its scopes
function_calls(scopes) ==
    [f \in {scopes[s].function : s \in FunctionScopes(scopes)} |->
        LET of_f == {k \in FunctionScopes(scopes) : scopes[k].function = f}
            s == CHOOSE k \in of_f : \A j \in of_f : j <= k
        IN  CallsInBody(scopes[s].body, 2, <<>>)]

\* the lists item(lo), ..., item(hi) joined in this order
RECURSIVE Joined(_, _, _)
Joined(item(_), lo, hi) ==
    IF lo > hi THEN <<>>
    ELSE IF lo = hi THEN item(lo)
    ELSE Joined(item, lo, (lo + hi) \div 2) \o Joined(item, (lo + hi) \div 2 + 1, hi)

\* the keys of function_calls in the order misra_17_2 put them in: the
\* order in which the functions first have a scope
FunctionOrder(scopes) ==
    LET IsFirst(s) ==
            /\ scopes[s].type = "Function"
            /\ \A j \in 1..(s - 1) :
                   scopes[j].type = "Function" => scopes[j].function # scopes[s].function
    IN  CHOOSE order \in {[k \in 1..Len(first) |-> scopes[first[k]].function] :
                             first \in {SelectSeq([s \in 1..Len(scopes) |-> s], IsFirst)}} :
            TRUE

\* the pairs (func, call) of the two loops that report, in their order
CallPairs(scopes) ==
    LET fc == function_calls(scopes)
        CallsFrom(order, k) ==
            [i \in 1..Len(fc[order[k]]) |-> [func |-> order[k], call |-> fc[order[k]][i]]]
    IN  CHOOSE pairs \in {Joined(LAMBDA k : CallsFrom(order, k), 1, Len(order)) :
                             order \in {FunctionOrder(scopes)}} : TRUE

\* the tokens reported for a recursive call of 'call' in 'func': the tokens
\* from bodyStart to before bodyEnd of the scopes of func that refer to call
ReportsOfCall(scopes, func, call) ==
    LET RECURSIVE InScope(_, _)
        InScope(s, t) ==
            IF t >= Len(scopes[s].body) THEN <<>>
            ELSE (IF scopes[s].body[t].function = Some(call)
                  THEN <<[scope |-> s, token |-> t, num1 |-> 17, num2 |-> 2]>>
                  ELSE <<>>) \o InScope(s, t + 1)
        FromScope(s) ==
            IF scopes[s].type = "Function" /\ scopes[s].function = func
            THEN InScope(s, 1) ELSE <<>>
    IN  Joined(FromScope, 1, Len(scopes))


\* the statements of a body: a call of function g, a use of the name of g
\* that is no call, a call through a pointer, and sizeof of g
Stmt(kind, g) == [kind |-> kind, g |-> g]

\* the tokens of one statement that starts at position at of its body
StmtTokens(stmt, at) ==
    IF stmt.kind = "call"
    THEN << BodyTok(<<"f">>, Some(stmt.g), 0), BodyTok(<<"(">>, None, at),
            BodyTok(<<")">>, None, 0), BodyTok(<<";">>, None, 0) >>
    ELSE IF stmt.kind = "ref"
    THEN << BodyTok(<<"p">>, None, 0), BodyTok(<<"=">>, None, at),
            BodyTok(<<"f">>, Some(stmt.g), 0), BodyTok(<<";">>, None, 0) >>
    ELSE IF stmt.kind = "pointer"
    THEN << BodyTok(<<"p">>, None, 0), BodyTok(<<"(">>, None, at),
            BodyTok(<<")">>, None, 0), BodyTok(<<";">>, None, 0) >>
    ELSE << BodyTok(<<"s", "i", "z", "e", "o", "f">>, None, 0), BodyTok(<<"(">>, None, at),
            BodyTok(<<"f">>, Some(stmt.g), 0), BodyTok(<<")">>, None, 0),
            BodyTok(<<";">>, None, 0) >>

\* the body of a function with these statements, from '{' to '}'
RECURSIVE BodyOf(_, _)
BodyOf(stmts, sofar) ==
    IF stmts = <<>> THEN Append(sofar, BodyTok(<<"}">>, None, 0))
    ELSE BodyOf(Tail(stmts), sofar \o StmtTokens(stmts[1], Len(sofar) + 1))

\* the lists of at most two of these statements
UpToTwo(stmts) ==
    {<<>>} \cup {<<a>> : a \in stmts} \cup {<<a, b>> : a \in stmts, b \in stmts}

\* the functions with a scope, and one that is only declared
Functions == 1..3
Declared == Cardinality(Functions) + 1

\* the statements that call no function by its name
NoCalls == {Stmt("ref", 2), Stmt("pointer", 0), Stmt("sizeof", 2)}

\* data.scopes: the global scope and the scopes of three functions; the
\* first function may hold a statement that is no call
CallSources ==
    { << [type |-> "Global", function |-> None, body |-> <<>>],
         [type |-> "Function", function |-> 1,
          body |-> BodyOf(b1, <<BodyTok(<<"{">>, None, 0)>>)],
         [type |-> "Function", function |-> 2,
          body |-> BodyOf(b2, <<BodyTok(<<"{">>, None, 0)>>)],
         [type |-> "Function", function |-> 3,
          body |-> BodyOf(b3, <<BodyTok(<<"{">>, None, 0)>>)] >> :
        b1 \in UpToTwo({Stmt("call", g) : g \in Functions \cup {Declared}})
               \cup {<<x>> : x \in NoCalls}
               \cup {<<Stmt("call", 2), x>> : x \in NoCalls},
        b2 \in UpToTwo({Stmt("call", g) : g \in Functions}),
        b3 \in {<<>>, <<Stmt("call", 1)>>, <<Stmt("call", 2)>>, <<Stmt("call", 3)>>,
                <<Stmt("call", 2), Stmt("call", 3)>>} }

\* a chain of n functions: each calls the next one, the last one calls none
ChainSource(n) ==
    <<[type |-> "Global", function |-> None, body |-> <<>>]>>
    \o [k \in 1..n |->
           [type |-> "Function", function |-> k,
            body |-> BodyOf(IF k < n THEN <<Stmt("call", k + 1)>> ELSE <<>>,
                            <<BodyTok(<<"{">>, None, 0)>>)]]

\* the shortest chain whose search takes more calls of find_recursive_call
\* than can be in progress
ChainLength == RecursionLimit + 2

\* the calls of find_recursive_call in progress when the first search of
\* misra_17_2 on a chain, for function 1 from function 2, has come to
\* function n + 1: every call is at the first function of its loop, the
\* last call has just been made
ChainFrames(n) == [k \in 1..n |-> Frame(1, k + 1, IF k < n THEN 1 ELSE 0)]

\* the functions that search has added to visited
ChainVisited(n) == 3..(n + 1)

\* how far the search on the chain has come: as many calls are in progress
\* as can go on
ChainStart == RecursionLimit

\* parseDump is about to call misra_17_2(data), or misra_17_2 is in its
\* first search on the chain of ChainLength functions
InitCalls ==
    /\ InitInDump({1702})
    /\ \/ /\ data \in {[scopes |-> s] : s \in CallSources}
          /\ pc = "misra_17_2"
          /\ frames = <<>>
          /\ visited = {}
       \/ /\ data = [scopes |-> ChainSource(ChainLength)]
          /\ pc = "find_recursive_call"
          /\ frames = ChainFrames(ChainStart)
          /\ visited = ChainVisited(ChainStart)
    /\ tokenlist = <<>>
    /\ rawTokens = <<>>
    /\ token = 0
    /\ state = STATE_NONE
    /\ end_swtich_token = None
    /\ executed = <<>>
    /\ runs = <<>>
    /\ essential = <<>>
    /\ returned = <<>>
    /\ ifStack = <<>>
    /\ errors = <<>>

\* misra_17_2 calls find_recursive_call(func, call, function_calls) for the
\* next call of the next function; token counts the calls done
Misra_17_2_Call ==
    /\ pc = "misra_17_2"
    /\ token < Len(CallPairs(data.scopes))
    /\ LET pair == CallPairs(data.scopes)[token + 1]
       IN  frames' = <<Frame(pair.func, pair.call, 0)>>
    /\ visited' = {}
    /\ pc' = "find_recursive_call"
    /\ UNCHANGED <<regVars, verify, ruleTexts, suppressionStats, verify_expected,
                   verify_actual, violations, typeBits, reported, printed, exitCode,
                   dumpfiles, data, cfgNumber, checkIdx, found, seenTokens,
                   rawTokens, token, state, end_swtich_token, tokenlist, executed,
                   runs, essential, returned, ifStack, errors>>

\* one step of find_recursive_call; when the outermost call returns,
\* misra_17_2 reports the tokens of a recursive call and goes on; a
\* RecursionError ends misra_17_2
FindRecursiveCall ==
    /\ pc = "find_recursive_call"
    /\ LET func == frames[1].search_for_function
           call == frames[1].direct_call
           step == find_recursive_call_step(function_calls(data.scopes), frames, visited)
       IN  /\ frames' = step.frames
           /\ visited' = step.visited
           /\ pc' = IF step.result = "none" THEN pc
                    ELSE IF step.result = "RecursionError" THEN "fault"
                    ELSE "misra_17_2"
           /\ token' = IF step.result \in {"True", "False"} THEN token + 1 ELSE token
           /\ returned' = IF step.result \in {"True", "False"}
                          THEN Append(returned, [func |-> func, call |-> call,
                                                 result |-> step.result = "True"])
                          ELSE returned
           /\ IF step.result = "True"
              THEN \E calls \in {ReportsOfCall(data.scopes, func, call)} :
                       Reporting(calls,
                                 [i \in 1..Len(calls) |->
                                     data.scopes[calls[i].scope].body[calls[i].token]])
              ELSE Reporting(<<>>, <<>>)
    /\ UNCHANGED <<regVars, verify, ruleTexts, verify_expected, typeBits, printed,
                   exitCode, dumpfiles, data, cfgNumber, checkIdx, found, seenTokens,
                   rawTokens, state, end_swtich_token, tokenlist, executed,
                   runs, essential, ifStack>>

\* the loops of misra_17_2 end and the function returns
Misra_17_2_Return ==
    /\ pc = "misra_17_2"
    /\ token = Len(CallPairs(data.scopes))
    /\ pc' = "done"
    /\ UNCHANGED <<regVars, verify, ruleTexts, suppressionStats, verify_expected,
                   verify_actual, violations, typeBits, reported, printed, exitCode,
                   dumpfiles, data, cfgNumber, checkIdx, found, seenTokens, ruleVars>>

NextCalls ==
    \/ Misra_17_2_Call
    \/ FindRecursiveCall
    \/ Misra_17_2_Return

SpecCalls == InitCalls /\ [][NextCalls]_vars


\* ---------------------------------------------------------------------
\* Claims about rule 17.2 (SpecCalls)
\* ---------------------------------------------------------------------

\* the positions of the body of scope s where a function is called by its
\* name: the name of a function followed by the '(' of the call
CallTokens(s) ==
    LET body == data.scopes[s].body
    IN  {t \in 1..(Len(body) - 1) :
            /\ body[t].function # None
            /\ body[t + 1].str = <<"(">>
            /\ body[t + 1].astOperand1 = t}

\* f calls g: a body of f holds a call of g
CallsDirectly(f, g) ==
    \E s \in 1..Len(data.scopes) :
        /\ data.scopes[s].type = "Function"
        /\ data.scopes[s].function = f
        /\ \E t \in CallTokens(s) : data.scopes[s].body[t].function = Some(g)

\* the functions of the data: those that have a scope and those a body
\* refers to
DataFunctions ==
    {data.scopes[s].function : s \in FunctionScopes(data.scopes)}
    \cup UNION {{data.scopes[s].body[t].function[1] :
                    t \in {u \in 1..Len(data.scopes[s].body) :
                              data.scopes[s].body[u].function # None}} :
                s \in FunctionScopes(data.scopes)}

\* the functions reached from those of the set S in at most n call steps
RECURSIVE WithinSteps(_, _)
WithinSteps(S, n) ==
    IF n = 0 THEN S
    ELSE LET near == WithinSteps(S, n - 1)
         IN  near \cup {g \in DataFunctions : \E f \in near : CallsDirectly(f, g)}

\* f is reachable from g in zero or more call steps
Reachable(g, f) == f \in WithinSteps({g}, Cardinality(DataFunctions))

\* the token at position t of the body of scope s was reported
TokenReported(s, t) == \E i \in 1..Len(errors) : errors[i].scope = s /\ errors[i].token = t

\* no loop of find_recursive_call has more turns than there are functions
\* (n): what is left of the loop of one call in progress
FrameLeft(frame, n) == 2 * (n + 1 - frame.next) + 1

\* more than a new call of find_recursive_call adds to what is left
FunctionWeight(n) == 2 * n + 4

\* what is left of the loops of the calls lo to hi of a stack
RECURSIVE FramesLeft(_, _, _, _)
FramesLeft(stack, lo, hi, n) ==
    IF lo > hi THEN 0
    ELSE IF lo = hi THEN FrameLeft(stack[lo], n)
    ELSE FramesLeft(stack, lo, (lo + hi) \div 2, n)
         + FramesLeft(stack, (lo + hi) \div 2 + 1, hi, n)

\* what is left of a search among n functions: the functions not yet
\* visited and the loops of the calls in progress
SearchLeft(n) ==
    FunctionWeight(n) * (n - Cardinality(visited)) + FramesLeft(frames, 1, Len(frames), n)

\* more than a whole search
SearchWeight(n) == FunctionWeight(n) * (n + 1) + 2

\* a natural number that bounds the steps misra_17_2 still takes on data of
\* n functions
StepsLeft(n) ==
    LET calls == Len(CallPairs(data.scopes)) - token
    IN  IF pc = "misra_17_2" THEN 1 + SearchWeight(n) * calls
        ELSE IF pc = "find_recursive_call"
        THEN 2 + SearchWeight(n) * (calls - 1) + SearchLeft(n)
        ELSE 0

\* misra_17_2 has a step to take: the next search to start, a search to go
\* on with, or its return
CanStep ==
    \/ pc = "misra_17_2" /\ token <= Len(CallPairs(data.scopes))
    \/ pc = "find_recursive_call" /\ frames # <<>> /\ token < Len(CallPairs(data.scopes))

\* every step of misra_17_2 lowers a natural number, and a step can be
\* taken until misra_17_2 has returned or a RecursionError is raised
SearchEnds ==
    /\ [][\A n \in {Cardinality(DataFunctions)} : StepsLeft(n)' < StepsLeft(n)]_vars
    /\ [](\A n \in {Cardinality(DataFunctions)} : StepsLeft(n) >= 0)
    /\ [](pc \notin {"done", "fault"} => CanStep)

\* a call of find_recursive_call that has returned has returned true
\* exactly when the searched function is reachable from the called one in
\* zero or more call steps, and when misra_17_2 has returned a call from f
\* to g is reported if and only if g can directly or transitively call f
ReachableFound ==
    /\ \A k \in 1..Len(returned) :
           returned[k].result = Reachable(returned[k].call, returned[k].func)
    /\ pc = "done" =>
           \A s \in FunctionScopes(data.scopes) : \A t \in CallTokens(s) :
               TokenReported(s, t)
                   <=> Reachable(data.scopes[s].body[t].function[1],
                                 data.scopes[s].function)

\* C29 as claimed: find_recursive_call returns for every call of every
\* function on every call graph, on call graphs with cycles too (every step
\* of misra_17_2 lowers a natural number, a step can be taken until
\* misra_17_2 has returned, and no RecursionError is raised); it returns
\* true exactly when the searched function is reachable from the called one
\* in zero or more call steps; and a call from f to g is reported if and
\* only if g can directly or transitively call f.
C29_RecursiveCallsFound == SearchEnds /\ [](pc # "fault") /\ []ReachableFound

\* the same where no RecursionError is raised
RecursiveCallsFoundUnlessRaised == SearchEnds /\ []ReachableFound

\* the search on the chain has ended in a RecursionError with one call more
\* in progress than can go on
RaisedOnChain ==
    /\ pc = "fault"
    /\ data.scopes = ChainSource(ChainLength)
    /\ Len(frames) = RecursionLimit + 1

\* misra_17_2 has returned for functions 1, 2 and 3 where 1 calls 2, and 2
\* and 3 call each other and not 1: the search for 1 from 2 met the cycle
\* and returned false, and the calls between 2 and 3 are reported
C29_Witness ==
    /\ pc = "done"
    /\ CallsDirectly(1, 2) /\ CallsDirectly(2, 3) /\ CallsDirectly(3, 2)
    /\ ~CallsDirectly(2, 1) /\ ~CallsDirectly(3, 1) /\ ~CallsDirectly(2, 2)
    /\ \E k \in 1..Len(returned) :
           returned[k] = [func |-> 1, call |-> 2, result |-> FALSE]
    /\ \E k \in 1..Len(returned) :
           returned[k] = [func |-> 2, call |-> 3, result |-> TRUE]
    /\ \E i \in 1..Len(errors) : data.scopes[errors[i].scope].function = 2
    /\ \E i \in 1..Len(errors) : data.scopes[errors[i].scope].function = 3
    /\ \A i \in 1..Len(errors) : data.scopes[errors[i].scope].function # 1


\* ------------------------------------------------------------------------
\* C30: rule 16.3 at the closing brace of a switch

\* the closing brace of the switch whose keyword is at s: the '}' of the
\* block that starts at the first '{' after s (0 when there is none)
SwitchEnd(s) ==
    LET opens == {o \in (s + 1)..Len(rawTokens) : rawTokens[o].str = <<"{">>}
        open == IF opens = {} THEN 0 ELSE CHOOSE o \in opens : \A p \in opens : o <= p
        ends == {c \in (open + 1)..Len(rawTokens) :
                    rawTokens[c].str = <<"}">> /\ BlockStart(c) = open}
    IN  IF open = 0 \/ ends = {} THEN 0 ELSE CHOOSE c \in ends : TRUE

\* the switch keywords of rawTokens
Switches == {s \in 1..Len(rawTokens) : rawTokens[s].str = kw_switch}

\* the token before the closing brace c is a ';' that ends no break, return
\* or throw statement
FallsIntoEnd(c) ==
    /\ c > 1
    /\ rawTokens[c - 1].str = <<";">>
    /\ ~StatementBefore(c, kw_break)
    /\ ~StatementBefore(c, kw_return)
    /\ ~StatementBefore(c, kw_throw)

\* the switch at s has another switch between its braces
EnclosesSwitch(s) == \E n \in Switches : s < n /\ n < SwitchEnd(s)

\* C30: when misra_16_3 has gone through rawTokens, rule 16.3 is reported
\* at the closing brace of every switch whose last token before that brace
\* is a ';' that ends no break, return or throw, also when the switch has a
\* nested switch whose closing brace was passed before.
C30_ReportedAtSwitchEnd ==
    ScanDone =>
        \A s \in Switches :
            (SwitchEnd(s) # 0 /\ FallsIntoEnd(SwitchEnd(s))) => ReportedAt(SwitchEnd(s))

\* the same for the switches that have no other switch between their
\* braces, and no report at the closing brace of a switch after break,
\* return or throw
InnermostReportedAtEnd ==
    ScanDone =>
        \A s \in Switches :
            /\ (SwitchEnd(s) # 0 /\ FallsIntoEnd(SwitchEnd(s)) /\ ~EnclosesSwitch(s))
                   => ReportedAt(SwitchEnd(s))
            /\ (SwitchEnd(s) # 0 /\ ~FallsIntoEnd(SwitchEnd(s)))
                   => ~ReportedAt(SwitchEnd(s))

====
